---- MODULE Spec2Model ----
(***************************************************************************)
(* Verification model of smartcare-insight.                                *)
(*                                                                         *)
(*   - wearable-simulator: EnhancedSignalGenerator (specifications        *)
(*     SpecGen, SpecModulation, SpecTrend), settings and the publishing    *)
(*     process (SpecSim)                                                   *)
(*   - llm-service: the /analyze endpoints, the Window Builder, the        *)
(*     OpenAI provider (SpecLLM), its deterministic fallback               *)
(*     (SpecFallback) and its prompt (SpecPrompt)                          *)
(*   - data-processor: on_message and process_data (SpecProcessor)         *)
(*   - alert-manager: thresholds and the monitoring cycle (SpecAlerts)     *)
(*                                                                         *)
(* Real numbers are fixed point.  Signal values, baselines, trends and     *)
(* additive noise are in thousandths (98.0 % is 98000); modulation factors *)
(* are in ten-thousandths (0.3 is 3000); multiplicative noise is in        *)
(* thousandths (2 % is 20).  Times of the llm-service are whole hours.     *)
(***************************************************************************)
EXTENDS Integers, Sequences, FiniteSets, TLC

VARIABLES
    \* ---- wearable-simulator ----
    condition,      \* EnhancedSignalGenerator.condition ("none" when unset)
    baselines,      \* EnhancedSignalGenerator.baselines
    trends,         \* EnhancedSignalGenerator.trends
    settings,       \* config.settings.settings (the fields generate reads)
    signals,        \* the dict returned by the last generate call
    factors,        \* the dict returned by the last _get_circadian_factor call
    ticks,          \* number of generate calls so far
    \* ---- llm-service ----
    store,          \* readings of the patient held by the time-series store
    api_key,        \* OpenAIProvider.api_key
    request,        \* the request being handled
    pc,             \* position of the request handler
    windows_data,   \* analyze_patient_data: windows built so far
    patient_data,   \* analyze_patient_data: the PatientData handed on
    llm,            \* what happened inside generate_analysis
    outcome,        \* what the endpoint hands back to its caller
    \* ---- OpenAIProvider._generate_mock_response called on its own ----
    fb_type,        \* the analysis_type argument
    fb_data,        \* the patient_data argument
    fb_results,     \* what the calls made so far handed back, oldest first
    \* ---- OpenAIProvider.format_prompt ----
    prompt_vitals,  \* the readings of one measurement type, in arrival order
    prompt_samples, \* the readings written into the prompt for that type
    \* ---- wearable-simulator process (config.settings, WearableSimulator) ----
    env,            \* the environment variables of the process
    config,         \* the Settings instance, once created
    sim_pc,         \* position of the simulator process
    connected,      \* WearableSimulator.connected
    clock,          \* the wall clock, in seconds (UTC)
    loop,           \* the publishing loop of run / generate_batch
    published,      \* the payloads handed to the broker, oldest first
    \* ---- data-processor ----
    message_count,  \* the global message_count
    written,        \* the points on_message stored for the last message
    \* ---- alert-manager ----
    monitoring,     \* the startup event has run and the monitor thread is alive
    thresholds,     \* the global dict thresholds
    alerts,         \* the global dict alerts, as the set of its values
    latest,         \* the last value of each patient and type in the store
    cycle           \* number of check_for_anomalies cycles so far

genVars == <<condition, baselines, trends, settings, signals, factors, ticks>>
llmVars == <<store, api_key, request, pc, windows_data, patient_data, llm, outcome>>
fbVars == <<fb_type, fb_data, fb_results>>
promptVars == <<prompt_vitals, prompt_samples>>
simVars == <<env, config, sim_pc, connected, clock, loop, published>>
procVars == <<message_count, written>>
alertVars == <<monitoring, thresholds, alerts, latest, cycle>>
vars == <<condition, baselines, trends, settings, signals, factors, ticks,
          store, api_key, request, pc, windows_data, patient_data, llm, outcome,
          fb_type, fb_data, fb_results, prompt_vitals, prompt_samples,
          env, config, sim_pc, connected, clock, loop, published,
          message_count, written, monitoring, thresholds, alerts, latest, cycle>>

None == "none"

\* an Optional field that is not a string: <<>> is Python's None, <<x>> holds x
Absent == <<>>
Some(x) == <<x>>

Min(a, b) == IF a <= b THEN a ELSE b
Max(a, b) == IF a >= b THEN a ELSE b
Abs(a) == IF a >= 0 THEN a ELSE 0 - a

(***************************************************************************)
(* Python round(): nearest multiple of unit, ties to the even multiple.    *)
(***************************************************************************)
PyRound(v, unit) ==
    LET q == v \div unit
        r == v % unit
    IN  IF 2 * r < unit THEN q * unit
        ELSE IF 2 * r > unit THEN (q + 1) * unit
        ELSE IF q % 2 = 0 THEN q * unit ELSE (q + 1) * unit

(***************************************************************************)
(*                       wearable-simulator                                *)
(***************************************************************************)

\* bounds of the simulator model
MaxTicks == 2

\* the keys of NORMAL_RANGES, in dict order
SignalOrder == <<"hr", "bp_sys", "bp_dia", "oxygen", "glucose", "activity">>
SignalNames == {SignalOrder[k] : k \in 1..Len(SignalOrder)}

\* constants.NORMAL_RANGES, in thousandths
NORMAL_RANGES ==
    [hr       |-> <<60000, 100000>>,
     bp_sys   |-> <<100000, 140000>>,
     bp_dia   |-> <<60000, 90000>>,
     oxygen   |-> <<95000, 100000>>,
     glucose  |-> <<70000, 120000>>,
     activity |-> <<300, 700>>]

Conditions == {"tachycardia", "bradycardia", "hypertension", "hypotension", "hypoxia",
               "hyperglycemia", "hypoglycemia", "sedentary", "athlete"}

\* constants.CONDITION_ADJUSTMENTS, factors in hundredths; a pair absent from the
\* table is no entry (the baseline is left alone)
CONDITION_ADJUSTMENTS ==
    [tachycardia   |-> [hr |-> 130],
     bradycardia   |-> [hr |-> 70],
     hypertension  |-> [bp_sys |-> 120, bp_dia |-> 120],
     hypotension   |-> [bp_sys |-> 85, bp_dia |-> 85],
     hypoxia       |-> [oxygen |-> 90],
     hyperglycemia |-> [glucose |-> 150],
     hypoglycemia  |-> [glucose |-> 70],
     sedentary     |-> [activity |-> 50],
     athlete       |-> [activity |-> 130]]

\* rng.uniform(-1.0, 1.0) of __init__, in thousandths
OxygenJitter == {-1000, 0, 900}

\* EnhancedSignalGenerator._apply_condition_adjustments
_apply_condition_adjustments(b, adjustments) ==
    [s \in DOMAIN b |->
        IF s \in DOMAIN adjustments THEN (b[s] * adjustments[s]) \div 100 ELSE b[s]]

\* EnhancedSignalGenerator.__init__: the baselines after construction
InitialBaselines(cond, jitter) ==
    LET mid == [s \in SignalNames |->
                   IF s = "oxygen" THEN 98000 + jitter
                   ELSE NORMAL_RANGES[s][1] + (NORMAL_RANGES[s][2] - NORMAL_RANGES[s][1]) \div 2]
    IN  IF cond /= None /\ cond \in DOMAIN CONDITION_ADJUSTMENTS
        THEN _apply_condition_adjustments(mid, CONDITION_ADJUSTMENTS[cond])
        ELSE mid

\* 0.5 * (1 + cos(2*pi*(hour - 4)/24)) for hour = 0..23, in ten-thousandths
CircadianBaseTable ==
    <<7500, 8536, 9330, 9830, 10000, 9830, 9330, 8536, 7500, 6294, 5000, 3706,
      2500, 1464, 670, 170, 0, 170, 670, 1464, 2500, 3706, 5000, 6294>>

\* 0.3 * exp(-((hour - 8)^2)/8) for hour = 0..23, in ten-thousandths
MorningSurgeTable ==
    <<1, 7, 33, 132, 406, 974, 1820, 2647, 3000, 2647, 1820, 974,
      406, 132, 33, 7, 1, 0, 0, 0, 0, 0, 0, 0>>

\* 0.4 * exp(-((hours_since_meal - 1.5)^2)/1.0) for whole hours since the meal
\* in [0.5, 3.0], in ten-thousandths
MealBump(hours_since_meal) ==
    IF hours_since_meal = 1 \/ hours_since_meal = 2 THEN 3115
    ELSE IF hours_since_meal = 3 THEN 422
    ELSE 0

RECURSIVE MealEffect(_, _)
MealEffect(hour, meals) ==
    IF meals = <<>> THEN 0
    ELSE MealBump((hour - Head(meals)) % 24) + MealEffect(hour, Tail(meals))

\* the is_sleep test of _get_circadian_factor
IsSleepMutant(hour, sleep_start, duration) ==
    sleep_start <= hour /\ hour < sleep_start + duration

IsSleep(hour, sleep_start, duration) ==
    LET sleep_end == (sleep_start + duration) % 24
    IN  IF sleep_start < sleep_end
        THEN sleep_start <= hour /\ hour < sleep_end
        ELSE hour >= sleep_start \/ hour < sleep_end

\* EnhancedSignalGenerator._get_circadian_factor, for a timestamp on the hour
_get_circadian_factor(hour, st) ==
    IF ~st.use_circadian_rhythms THEN [s \in SignalNames |-> 0]
    ELSE
    LET c == CircadianBaseTable[hour + 1] - 5000
        surge == MorningSurgeTable[hour + 1]
        meal == IF st.simulate_meals THEN MealEffect(hour, st.meal_times) ELSE 0
        asleep == st.simulate_sleep /\ IsSleep(hour, st.sleep_start_hour, st.sleep_duration_hours)
        base == [hr       |-> (2 * c) \div 10,
                 bp_sys   |-> c \div 10 + surge,
                 bp_dia   |-> (8 * c) \div 100 + (8 * surge) \div 10,
                 glucose  |-> c \div 10 + meal,
                 oxygen   |-> (0 - c) \div 100,
                 activity |-> (4 * c) \div 10]
    IN  [s \in SignalNames |->
            IF ~asleep THEN base[s]
            ELSE IF s = "activity" THEN base[s] - 8000
            ELSE IF s = "hr" THEN base[s] - 1500
            ELSE IF s \in {"bp_sys", "bp_dia"} THEN base[s] - 1000
            ELSE base[s]]

\* x * 0.95, cut to the resolution of the model (toward zero)
Damped(x) == IF x >= 0 THEN (x * 95) \div 100 ELSE 0 - (((0 - x) * 95) \div 100)

\* generate, lines 159-160: the damped trend update
TrendUpdateMutant(t, draw) == Damped(t) + draw

TrendUpdate(t, draw) == Damped(t + draw)

\* generate, lines 163-181: the oxygen branch
OxygenValueMutant(baseline, trend, effect, draw) ==
    LET v0 == baseline + trend \div 2 + (2 * effect) \div 10
        max_noise == Min(100000 - v0, 1000)
        noise == Max(-1000, Min(max_noise, draw))
    IN  PyRound(v0 + noise, 100)

OxygenValue(baseline, trend, effect, draw) ==
    LET v0 == baseline + trend \div 2 + (2 * effect) \div 10
        max_noise == Min(100000 - v0, 1000)
        noise == Max(-1000, Min(max_noise, draw))
        rounded == PyRound(v0 + noise, 100)
    IN  Max(90000, Min(100000, rounded))

\* generate, lines 203-219: bounds and rounding of a non-oxygen signal
ClampAndRoundMutant(s, value) ==
    IF s \in {"hr", "bp_sys", "bp_dia", "glucose"} THEN PyRound(value, 1000)
    ELSE Max(0, Min(1000, PyRound(value, 10)))

ClampAndRound(s, value) ==
    LET min_val == NORMAL_RANGES[s][1]
        max_val == NORMAL_RANGES[s][2]
        range_width == max_val - min_val
        clamped == Max(min_val - (3 * range_width) \div 10,
                       Min(max_val + (3 * range_width) \div 10, value))
    IN  IF s \in {"hr", "bp_sys", "bp_dia", "glucose"} THEN PyRound(clamped, 1000)
        ELSE Max(0, Min(1000, PyRound(clamped, 10)))

\* generate, lines 192-200: baseline + trend + modulation, then multiplicative noise
StandardValue(baseline, trend, effect, draw) ==
    LET v0 == baseline + trend + (baseline * effect) \div 10000
    IN  v0 + (v0 * draw) \div 1000

\* one value of the generate loop
SignalValue(s, baseline, trend, effect, draw) ==
    IF s = "oxygen" THEN OxygenValue(baseline, trend, effect, draw)
    ELSE ClampAndRound(s, StandardValue(baseline, trend, effect, draw))

\* the draws of rng.normal in one generate call: one trend draw and one noise draw
\* per signal.  Draws are unbounded in the code; the vectors cover small and
\* extreme draws of both signs and a vector that differs between signals.
TrendDrawVectors ==
    {[s \in SignalNames |-> 150],
     [s \in SignalNames |-> IF s \in {"hr", "oxygen", "activity"} THEN -150 ELSE 40]}

NoiseDrawVectors ==
    {[s \in SignalNames |-> 30],
     [s \in SignalNames |-> 1500],
     [s \in SignalNames |-> -2500],
     [s \in SignalNames |-> IF s \in {"hr", "glucose"} THEN -2500 ELSE 1500]}

\* hours of day the timestamps passed to generate fall on
SampleHours == {3, 8, 13, 20}

\* the settings the generator reads (validated by Settings)
SettingsChoices ==
    {[use_circadian_rhythms |-> c, simulate_meals |-> m, simulate_sleep |-> sl,
      meal_times |-> <<7, 12, 19>>, sleep_start_hour |-> 23, sleep_duration_hours |-> 8]
        : c \in BOOLEAN, m \in BOOLEAN, sl \in BOOLEAN}

NoSample == [timestamp |-> None]

\* _get_circadian_factor has not been called
NoFactors == [timestamp |-> None]

\* EnhancedSignalGenerator.generate: one call, for a timestamp on one of the
\* hours, with the draws of rng.normal taken from the given vectors
generateMutant(hours, trend_draws, noise_draws, cap) ==
    /\ ticks < cap
    /\ \E hour \in hours, td \in trend_draws, nd \in noise_draws :
          LET time_effects == _get_circadian_factor(hour, settings)
              newTrends == [s \in SignalNames |-> TrendUpdate(trends[s], td[s])]
          IN  /\ trends' = newTrends
              /\ factors' = [timestamp |-> hour, effects |-> time_effects]
              /\ signals' = [timestamp |-> hour,
                             values |-> [s \in SignalNames |->
                                 SignalValue(s, baselines[s], newTrends[s], time_effects[s], nd[s])]]
    /\ ticks' = ticks + 1
    /\ baselines' = IF condition /= None /\ condition \in DOMAIN CONDITION_ADJUSTMENTS
                    THEN _apply_condition_adjustments(baselines, CONDITION_ADJUSTMENTS[condition])
                    ELSE baselines
    /\ UNCHANGED <<condition, settings>>
    /\ UNCHANGED <<llmVars, fbVars, promptVars, simVars, procVars, alertVars>>

generate(hours, trend_draws, noise_draws, cap) ==
    /\ ticks < cap
    /\ \E hour \in hours, td \in trend_draws, nd \in noise_draws :
          LET time_effects == _get_circadian_factor(hour, settings)
              newTrends == [s \in SignalNames |-> TrendUpdate(trends[s], td[s])]
          IN  /\ trends' = newTrends
              /\ factors' = [timestamp |-> hour, effects |-> time_effects]
              /\ signals' = [timestamp |-> hour,
                             values |-> [s \in SignalNames |->
                                 SignalValue(s, baselines[s], newTrends[s], time_effects[s], nd[s])]]
    /\ ticks' = ticks + 1
    /\ UNCHANGED <<condition, baselines, settings>>
    /\ UNCHANGED <<llmVars, fbVars, promptVars, simVars, procVars, alertVars>>

\* a generate call of the simulator model
Generate == generate(SampleHours, TrendDrawVectors, NoiseDrawVectors, MaxTicks)

\* the llm-service at rest
LLMIdle ==
    /\ store = {}
    /\ api_key = None
    /\ request = None
    /\ pc = "idle"
    /\ windows_data = <<>>
    /\ patient_data = None
    /\ llm = None
    /\ outcome = None

\* no call of _generate_mock_response on its own is under way
FallbackIdle ==
    /\ fb_type = None
    /\ fb_data = None
    /\ fb_results = <<>>

\* no call of format_prompt is under way
PromptIdle ==
    /\ prompt_vitals = <<>>
    /\ prompt_samples = Absent

\* the simulator process has not been started
SimIdle ==
    /\ env = None
    /\ config = None
    /\ sim_pc = "off"
    /\ connected = FALSE
    /\ clock = 0
    /\ loop = None
    /\ published = <<>>

\* the data-processor has received no message
ProcIdle ==
    /\ message_count = 0
    /\ written = <<>>

\* the alert-manager has not been started
AlertIdle ==
    /\ monitoring = FALSE
    /\ thresholds = <<>>
    /\ alerts = {}
    /\ latest = <<>>
    /\ cycle = 0

\* the simulator after EnhancedSignalGenerator.__init__, for every condition
InitGen ==
    /\ condition \in Conditions \cup {None}
    /\ \E jitter \in OxygenJitter : baselines = InitialBaselines(condition, jitter)
    /\ trends = [s \in SignalNames |-> 0]
    /\ settings \in SettingsChoices
    /\ signals = NoSample
    /\ factors = NoFactors
    /\ ticks = 0
    /\ LLMIdle
    /\ FallbackIdle
    /\ PromptIdle
    /\ SimIdle
    /\ ProcIdle
    /\ AlertIdle

NextGen == Generate

SpecGen == InitGen /\ [][NextGen]_vars

(***************************************************************************)
(*     EnhancedSignalGenerator._get_circadian_factor called on its own     *)
(***************************************************************************)

\* the hours of day of the timestamps: timestamp.hour + timestamp.minute / 60
\* is compared with whole hours only, so the minutes decide nothing
HoursOfDay == 0..23

\* the settings Settings lets through: sleep_start_hour 0..23,
\* sleep_duration_hours 4..12 (validate_ranges makes it an integer), the
\* three flags free
ModulationSettings ==
    {[use_circadian_rhythms |-> c, simulate_meals |-> m, simulate_sleep |-> sl,
      meal_times |-> <<7, 12, 19>>, sleep_start_hour |-> start, sleep_duration_hours |-> d]
        : c \in BOOLEAN, m \in BOOLEAN, sl \in BOOLEAN, start \in 0..23, d \in 4..12}

\* one call of _get_circadian_factor for a timestamp on the given hour
GetCircadianFactor ==
    /\ \E hour \in HoursOfDay :
          factors' = [timestamp |-> hour, effects |-> _get_circadian_factor(hour, settings)]
    /\ UNCHANGED <<condition, baselines, trends, settings, signals, ticks>>
    /\ UNCHANGED <<llmVars, fbVars, promptVars, simVars, procVars, alertVars>>

\* a generator made with the defaults, under every valid sleep configuration
InitModulation ==
    /\ condition = None
    /\ baselines = InitialBaselines(None, 0)
    /\ trends = [s \in SignalNames |-> 0]
    /\ settings \in ModulationSettings
    /\ signals = NoSample
    /\ factors = NoFactors
    /\ ticks = 0
    /\ LLMIdle
    /\ FallbackIdle
    /\ PromptIdle
    /\ SimIdle
    /\ ProcIdle
    /\ AlertIdle

NextModulation == GetCircadianFactor

SpecModulation == InitModulation /\ [][NextModulation]_vars

(***************************************************************************)
(*          EnhancedSignalGenerator.generate called many times             *)
(***************************************************************************)

\* bound of the long run: the number of generate calls
MaxRun == 80

\* the draws of rng.normal(0, 0.05) for the trends in the long run: one
\* standard deviation up or down, the same for every signal
DriftDraws == {[s \in SignalNames |-> 50], [s \in SignalNames |-> -50]}

\* the largest magnitude of a trend draw of the long run
DrawBound ==
    LET magnitudes == {Abs(d[s]) : d \in DriftDraws, s \in SignalNames}
    IN  CHOOSE b \in magnitudes : \A m \in magnitudes : b >= m

\* rng.normal(0, noise_level) of the long run: no noise
SteadyNoise == {[s \in SignalNames |-> 0]}

\* a generate call of the long run, for a timestamp at 13:00
GenerateRun == generate({13}, DriftDraws, SteadyNoise, MaxRun)

\* the generator after __init__ with the defaults
InitTrend ==
    /\ condition = None
    /\ baselines = InitialBaselines(None, 0)
    /\ trends = [s \in SignalNames |-> 0]
    /\ settings \in {st \in SettingsChoices : st.use_circadian_rhythms /\ st.simulate_meals
                                               /\ st.simulate_sleep}
    /\ signals = NoSample
    /\ factors = NoFactors
    /\ ticks = 0
    /\ LLMIdle
    /\ FallbackIdle
    /\ PromptIdle
    /\ SimIdle
    /\ ProcIdle
    /\ AlertIdle

NextTrend == GenerateRun

SpecTrend == InitTrend /\ [][NextTrend]_vars

(***************************************************************************)
(*                            llm-service                                  *)
(***************************************************************************)

\* bounds of the llm-service model
MaxWindows == 3
MaxDuration == 2
MaxInterval == 1
MaxReadings == 2
MaxAge == 3

\* models.AnalysisType
TIME_WINDOW == "time_window"
EVENT_BASED == "event_based"
COMPARATIVE == "comparative"
TREND_ANALYSIS == "trend_analysis"
AnalysisType == {TIME_WINDOW, EVENT_BASED, COMPARATIVE, TREND_ANALYSIS}

\* the requested end times, in hours
EndTimes == {48}

\* the readings the store may hold: models.VitalSign as fetch_patient_data
\* builds it from a record
ReadingUniverse ==
    {[timestamp |-> e - a, measurement_type |-> "hr", value |-> v]
        : e \in EndTimes, a \in 0..MaxAge, v \in {70, 110}}
    \cup
    {[timestamp |-> e - a, measurement_type |-> "oxygen", value |-> 94]
        : e \in EndTimes, a \in 0..MaxAge}

Stores == {S \in SUBSET ReadingUniverse : Cardinality(S) <= MaxReadings}

\* fetch_patient_data: the Flux query range(start:, stop:) keeps the records
\* with start <= _time < stop, filtered by patient and measurement type (the
\* requests of the model ask for every type); a failing query yields the same
\* PatientData as a query without records
fetch_patient_data(db, start_time, end_time) ==
    [vitals |-> {r \in db : start_time <= r.timestamp /\ r.timestamp < end_time},
     start_time |-> start_time,
     end_time |-> end_time,
     comparison_data |-> Absent,
     windows |-> Absent,
     window_count |-> Absent,
     window_duration_hours |-> Absent,
     window_interval_hours |-> Absent]

\* the requests a client can send: the endpoint fixes the class the body is
\* parsed into and, except for /analyze, overwrites analysis_type.  The window
\* fields exist in the class TrendAnalysisRequest only and are read for it only.
PlainRequest(endpoint, class, kind, e) ==
    [endpoint |-> endpoint, class |-> class, analysis_type |-> kind,
     start_time |-> e - MaxAge, end_time |-> e,
     comparison_start_time |-> e - 2 * MaxAge, comparison_end_time |-> e - MaxAge,
     window_count |-> 0, window_duration_hours |-> 0, window_interval_hours |-> 0]

Requests ==
    {PlainRequest("/analyze", "AnalysisRequest", k, e) : k \in AnalysisType, e \in EndTimes}
    \cup {PlainRequest("/analyze/time-window", "AnalysisRequest", TIME_WINDOW, e) : e \in EndTimes}
    \cup {PlainRequest("/analyze/event-based", "EventBasedAnalysisRequest", EVENT_BASED, e) : e \in EndTimes}
    \cup {PlainRequest("/analyze/comparative", "ComparativeAnalysisRequest", COMPARATIVE, e) : e \in EndTimes}
    \cup {[PlainRequest("/analyze/trend-analysis", "TrendAnalysisRequest", TREND_ANALYSIS, e)
              EXCEPT !.window_count = n, !.window_duration_hours = d, !.window_interval_hours = g]
            : e \in EndTimes, n \in 0..MaxWindows, d \in 0..MaxDuration, g \in -1..MaxInterval}

\* analyze_patient_data line 235: the request takes the Window Builder branch
IsTrendBranch(req) ==
    req.analysis_type = TREND_ANALYSIS /\ req.class = "TrendAnalysisRequest"

\* analyze_patient_data lines 252-256
total_time_spanMutant(req) ==
    req.window_duration_hours * (req.window_count - 1)
        + req.window_interval_hours * (req.window_count - 1)

total_time_span(req) ==
    req.window_duration_hours * req.window_count
        + req.window_interval_hours * (req.window_count - 1)

calculated_start_time(req) == req.end_time - total_time_span(req)

\* analyze_patient_data lines 270-275
WindowStartMutant(req, i) ==
    calculated_start_time(req) + req.window_duration_hours * i

WindowStart(req, i) ==
    calculated_start_time(req) + (req.window_duration_hours + req.window_interval_hours) * i

WindowEndMutant(req, i) == WindowStart(req, i) + req.window_duration_hours

WindowEnd(req, i) ==
    LET window_end == WindowStart(req, i) + req.window_duration_hours
    IN  IF window_end > req.end_time THEN req.end_time ELSE window_end

\* the measurement types of a set of readings
TypesOf(S) == {r.measurement_type : r \in S}

RECURSIVE SumValues(_)
SumValues(S) ==
    IF S = {} THEN 0
    ELSE LET r == CHOOSE x \in S : TRUE IN r.value + SumValues(S \ {r})

\* the values of a set of readings as a list, in timestamp order
RECURSIVE ValuesOf(_)
ValuesOf(S) ==
    IF S = {} THEN <<>>
    ELSE LET r == CHOOSE x \in S : \A y \in S : x.timestamp <= y.timestamp
         IN  <<r.value>> \o ValuesOf(S \ {r})

\* analyze_patient_data lines 350-359: the per-type statistics of a window.
\* An average is kept exact, as the pair <<sum, count>>.
WindowStats(S) ==
    [mt \in TypesOf(S) |->
        LET vs == {r \in S : r.measurement_type = mt}
        IN  [values |-> ValuesOf(vs),
             avg |-> <<SumValues(vs), Cardinality(vs)>>,
             min |-> CHOOSE v \in {r.value : r \in vs} : \A r \in vs : v <= r.value,
             max |-> CHOOSE v \in {r.value : r \in vs} : \A r \in vs : v >= r.value]]

\* analyze_patient_data lines 342-359: the window_info of window i.  The keys
\* "<type>_values", "<type>_avg", "<type>_min", "<type>_max" are the domain of
\* stats; "vitals" is created empty and is not filled.
WindowInfoMutant(req, i, db) ==
    [window_index |-> i,
     window_label |-> <<"Window", i>>,
     start_time |-> WindowStart(req, i),
     end_time |-> WindowEnd(req, i),
     vitals |-> {},
     stats |-> WindowStats(fetch_patient_data(db, WindowStart(req, i), WindowEnd(req, i)).vitals)]

WindowInfo(req, i, db) ==
    LET window_start == WindowStart(req, i)
        window_end == WindowEnd(req, i)
        window_data == fetch_patient_data(db, window_start, window_end)
    IN  [window_index |-> i,
         window_label |-> <<"Window", i + 1>>,
         start_time |-> window_start,
         end_time |-> window_end,
         vitals |-> {},
         stats |-> WindowStats(window_data.vitals)]

\* models.Insight and models.Recommendation; a confidence is in hundredths and
\* the numbers formatted into a text are left out of it
Insight(text, confidence, related) ==
    [text |-> text, confidence |-> confidence, related_measurements |-> related]

Recommendation(text, priority) == [text |-> text, priority |-> priority]

\* the measurement types of a set of readings as a list, in the order of SignalOrder
TypeList(S) == SelectSeq(SignalOrder, LAMBDA mt : mt \in TypesOf(S))

\* _generate_mock_response lines 418-497: the insights and recommendations
\* from the readings of the whole period
BasicFindings(pd) ==
    LET hr == {r \in pd.vitals : r.measurement_type = "hr"}
        o2 == {r \in pd.vitals : r.measurement_type = "oxygen"}
        hrSum == SumValues(hr)
        hrN == Cardinality(hr)
        hrInsights ==
            IF hr = {} THEN <<>>
            ELSE IF hrSum > 100 * hrN
                 THEN <<Insight("Elevated average heart rate", 80, <<"hr">>)>>
            ELSE IF hrSum < 60 * hrN
                 THEN <<Insight("Low average heart rate", 80, <<"hr">>)>>
            ELSE <<Insight("Normal average heart rate", 90, <<"hr">>)>>
        hrRecs ==
            IF hr = {} THEN <<>>
            ELSE IF hrSum > 100 * hrN THEN <<Recommendation("Monitor heart rate closely", 3)>>
            ELSE IF hrSum < 60 * hrN THEN <<Recommendation("Evaluate for bradycardia", 3)>>
            ELSE <<>>
        lowO2 == \E r \in o2 : r.value < 95
        o2Insights == IF lowO2 THEN <<Insight("Low oxygen saturation detected", 90, <<"oxygen">>)>>
                      ELSE <<>>
        o2Recs == IF lowO2 THEN <<Recommendation("Evaluate respiratory status", 4)>> ELSE <<>>
        found == hrInsights \o o2Insights
    IN  IF found /= <<>>
        THEN [insights |-> found, recommendations |-> hrRecs \o o2Recs]
        ELSE [insights |-> <<Insight("All vital signs appear to be within normal ranges", 80,
                                     TypeList(pd.vitals)),
                             Insight("Patient shows stable health metrics during the monitoring period",
                                     70, TypeList(pd.vitals))>>,
              recommendations |-> <<Recommendation("Continue regular monitoring schedule", 1),
                                    Recommendation("Review patient's medication adherence at next check-up", 2)>>]

\* _generate_mock_response lines 506-519: measurement_trends is filled from
\* window['vitals'].  The types that occur in the vitals of some window:
TrendTypes(windows) ==
    SelectSeq(SignalOrder,
              LAMBDA mt : \E k \in 1..Len(windows) : mt \in TypesOf(windows[k].vitals))

\* lines 524-527: the averages <<sum, count>> of the windows that have values
\* of the type, in window order
RECURSIVE window_averages(_, _)
window_averages(mt, windows) ==
    IF windows = <<>> THEN <<>>
    ELSE LET vs == {r \in Head(windows).vitals : r.measurement_type = mt}
         IN  (IF vs = {} THEN <<>> ELSE << <<SumValues(vs), Cardinality(vs)>> >>)
                 \o window_averages(mt, Tail(windows))

\* line 533: percent_change as the exact fraction <<numerator, denominator>>,
\* denominator > 0 (values are not negative)
percent_changeMutant(first_avg, last_avg) ==
    <<(last_avg[1] * first_avg[2] - first_avg[1] * last_avg[2]) * 100,
      first_avg[1] * last_avg[2]>>

percent_change(first_avg, last_avg) ==
    IF first_avg[1] = 0 THEN <<0, 1>>
    ELSE <<(last_avg[1] * first_avg[2] - first_avg[1] * last_avg[2]) * 100,
           first_avg[1] * last_avg[2]>>

\* lines 529-568: the insight of one measurement type
TrendInsightOfMutant(mt, avgs) ==
    IF Len(avgs) < 2 THEN <<>>
    ELSE LET pct == percent_change(avgs[1], avgs[Len(avgs)])
         IN  IF Abs(pct[1]) >= 10 * pct[2]
             THEN <<[text |-> "shows a trend across windows",
                     direction |-> IF pct[1] > 0 THEN "increasing" ELSE "decreasing",
                     confidence |-> 85, related_measurements |-> <<mt>>]>>
             ELSE <<[text |-> "remains relatively stable across windows",
                     direction |-> "stable",
                     confidence |-> 90, related_measurements |-> <<mt>>]>>

TrendInsightOf(mt, avgs) ==
    IF Len(avgs) < 2 THEN <<>>
    ELSE LET pct == percent_change(avgs[1], avgs[Len(avgs)])
         IN  IF Abs(pct[1]) > 10 * pct[2]
             THEN <<[text |-> "shows a trend across windows",
                     direction |-> IF pct[1] > 0 THEN "increasing" ELSE "decreasing",
                     confidence |-> 85, related_measurements |-> <<mt>>]>>
             ELSE <<[text |-> "remains relatively stable across windows",
                     direction |-> "stable",
                     confidence |-> 90, related_measurements |-> <<mt>>]>>

\* lines 545-562: the recommendation of one measurement type
TrendRecommendationOfMutant(mt, avgs) ==
    IF Len(avgs) < 2 THEN <<>>
    ELSE LET pct == percent_change(avgs[1], avgs[Len(avgs)])
         IN  IF Abs(pct[1]) <= 10 * pct[2] THEN <<>>
             ELSE IF mt = "hr" /\ pct[1] > 10 * pct[2]
                  THEN <<Recommendation("Monitor heart rate more frequently", 3)>>
             ELSE IF mt = "oxygen" /\ pct[1] < (0 - 5) * pct[2]
                  THEN <<Recommendation("Evaluate respiratory function", 4)>>
             ELSE IF mt = "activity" /\ pct[1] < (0 - 10) * pct[2]
                  THEN <<Recommendation("Assess for mobility issues or fatigue", 3)>>
             ELSE <<>>

TrendRecommendationOf(mt, avgs) ==
    IF Len(avgs) < 2 THEN <<>>
    ELSE LET pct == percent_change(avgs[1], avgs[Len(avgs)])
         IN  IF Abs(pct[1]) <= 10 * pct[2] THEN <<>>
             ELSE IF mt = "hr" /\ pct[1] > 10 * pct[2]
                  THEN <<Recommendation("Monitor heart rate more frequently", 3)>>
             ELSE IF mt = "oxygen" /\ pct[1] < (0 - 5) * pct[2]
                  THEN <<Recommendation("Evaluate respiratory function", 4)>>
             ELSE IF mt = "activity" /\ pct[1] < (0 - 15) * pct[2]
                  THEN <<Recommendation("Assess for mobility issues or fatigue", 3)>>
             ELSE <<>>

RECURSIVE TrendInsights(_, _)
TrendInsights(types, windows) ==
    IF types = <<>> THEN <<>>
    ELSE TrendInsightOf(Head(types), window_averages(Head(types), windows))
            \o TrendInsights(Tail(types), windows)

RECURSIVE TrendRecommendations(_, _)
TrendRecommendations(types, windows) ==
    IF types = <<>> THEN <<>>
    ELSE TrendRecommendationOf(Head(types), window_averages(Head(types), windows))
            \o TrendRecommendations(Tail(types), windows)

\* lines 500-589: the findings of the trend branch of the fallback
TrendFindings(pd) ==
    LET windows == pd.windows[1]
        types == TrendTypes(windows)
        several == Len(types) > 1
    IN  [insights |-> TrendInsights(types, windows)
                        \o (IF several
                            THEN <<Insight("time windows show multiple vital sign patterns", 80, types)>>
                            ELSE <<>>),
         recommendations |-> TrendRecommendations(types, windows)
                        \o (IF several
                            THEN <<Recommendation("Continue monitoring with the current window configuration", 2)>>
                            ELSE <<>>)]

\* Python truth of an Optional list: neither None nor empty
Truthy(opt) == opt /= Absent /\ opt[1] /= <<>>

Raised(exception, at) == [status |-> "raised", exception |-> exception, at |-> at]
Returned(response) == [status |-> "returned", response |-> response]

\* OpenAIProvider._generate_trend_windows: range(window_count) and the
\* timedelta arithmetic raise TypeError on parameters that are None
_generate_trend_windows(pd) ==
    IF pd.window_count = Absent \/ pd.window_duration_hours = Absent
           \/ pd.window_interval_hours = Absent
    THEN Raised("TypeError", "_generate_trend_windows")
    ELSE
    LET window_count == pd.window_count[1]
        window_duration == pd.window_duration_hours[1]
        window_interval_hours == pd.window_interval_hours[1]
        startOf(i) == pd.start_time + (window_duration + window_interval_hours) * i
        endOf(i) == startOf(i) + window_duration
        inside(i) == {r \in pd.vitals : startOf(i) <= r.timestamp /\ r.timestamp <= endOf(i)}
        kept == SelectSeq([k \in 1..Max(window_count, 0) |-> k - 1],
                          LAMBDA i : endOf(i) <= pd.end_time /\ inside(i) /= {})
    IN  Returned([k \in 1..Len(kept) |->
                    [window_index |-> kept[k],
                     window_label |-> <<"Window", kept[k] + 1>>,
                     window_start |-> <<"iso", startOf(kept[k])>>,
                     window_end |-> <<"iso", endOf(kept[k])>>,
                     vitals |-> inside(kept[k]),
                     stats |-> WindowStats(inside(kept[k]))]])

\* the fields every AnalysisResponse of the provider carries
ResponseOf(analysis_type, pd, source, summary, insights, recommendations, windows) ==
    [analysis_type |-> analysis_type,
     source |-> source,
     summary |-> summary,
     insights |-> insights,
     recommendations |-> recommendations,
     data_points_analyzed |-> Cardinality(pd.vitals),
     time_period |-> pd.end_time - pd.start_time,
     windows |-> windows]

\* OpenAIProvider._generate_mock_response
_generate_mock_response(analysis_type, pd) ==
    LET trend == analysis_type = TREND_ANALYSIS /\ Truthy(pd.windows)
        findings == IF trend THEN TrendFindings(pd) ELSE BasicFindings(pd)
        \* line 587 multiplies the window parameters: TypeError when they are None
        summaryRaises ==
            /\ trend
            /\ findings.insights /= <<>>
            /\ (pd.window_count = Absent \/ pd.window_duration_hours = Absent
                   \/ pd.window_interval_hours = Absent)
        summary ==
            IF trend
            THEN IF findings.insights /= <<>>
                 THEN [text |-> "Trend analysis shows notable patterns",
                       windows |-> Len(pd.windows[1]),
                       hours |-> pd.window_duration_hours[1] * pd.window_count[1]
                                   + pd.window_interval_hours[1] * (pd.window_count[1] - 1),
                       patterns |-> Len(findings.insights)]
                 ELSE [text |-> "Trend analysis shows no significant patterns",
                       windows |-> Len(pd.windows[1])]
            ELSE IF Len(findings.insights) > 1
                 THEN [text |-> "Multiple observations in patient vital signs. See insights for details."]
                 ELSE [text |-> findings.insights[1].text]
        generated == _generate_trend_windows(pd)
    IN  IF summaryRaises THEN Raised("TypeError", "_generate_mock_response")
        ELSE IF analysis_type /= TREND_ANALYSIS
        THEN Returned(ResponseOf(analysis_type, pd, "mock", summary,
                                 findings.insights, findings.recommendations, Absent))
        ELSE IF ~Truthy(pd.windows)
        THEN IF generated.status = "raised" THEN generated
             ELSE Returned(ResponseOf(analysis_type, pd, "mock", summary,
                                      findings.insights, findings.recommendations,
                                      Some(generated.response)))
        ELSE Returned(ResponseOf(analysis_type, pd, "mock", summary,
                                 findings.insights, findings.recommendations, pd.windows))

\* OPENAI_API_KEY as __init__ reads it: unset (os.getenv gives None), set to
\* the empty string, or set to a key
ApiKeys == {None, "", "sk-key"}

\* what the call of the OpenAI API does: it raises (transport or API error),
\* times out (an exception as well), or answers with a content that
\*   - is no JSON and has no line with a prefix (non_json),
\*   - is no JSON and has a line "Insight: ..." and a line
\*     "Recommendation: ..." after its first line (non_json_lines),
\*   - is a JSON object with summary, one insight and one recommendation
\*     (json_ok), the same inside a code block (json_in_code_block),
\*   - is a JSON object lacking the keys, so that the defaults apply
\*     (json_missing_fields),
\*   - is a JSON object whose insights do not validate (json_invalid_fields),
\*   - is JSON but no object, so that .get fails (json_not_object)
LLMOutcomes == {"exception", "timeout", "non_json", "non_json_lines", "json_ok",
                "json_in_code_block", "json_missing_fields", "json_invalid_fields",
                "json_not_object"}

\* generate_analysis lines 183-224: the windows of the JSON path, datetimes
\* turned into ISO strings
ProcessedWindows(pd) ==
    IF ~Truthy(pd.windows) THEN Absent
    ELSE Some([k \in 1..Len(pd.windows[1]) |->
                [pd.windows[1][k] EXCEPT !.start_time = <<"iso", @>>, !.end_time = <<"iso", @>>]])

\* generate_analysis lines 108-128: the number of calls of the chat
\* completions API one invocation makes
ApiCallsMadeMutant(key, answer) ==
    IF key = None \/ key = "" THEN 0
    ELSE IF answer \in {"exception", "timeout"} THEN 2
    ELSE 1

ApiCallsMade(key, answer) ==
    IF key = None \/ key = "" THEN 0 ELSE 1

\* generate_analysis lines 139-267: what is done with the outcome of the call:
\* json.loads and the conversion succeed, json.loads raises JSONDecodeError,
\* or anything else raises and is caught by the outer except
DispatchOfMutant(answer) ==
    IF answer \in {"json_ok", "json_in_code_block", "json_missing_fields"} THEN "json"
    ELSE "mock"

DispatchOf(answer) ==
    IF answer \in {"json_ok", "json_in_code_block", "json_missing_fields"} THEN "json"
    ELSE IF answer \in {"non_json", "non_json_lines"} THEN "lines"
    ELSE "mock"

\* lines 162-181: summary, insights and recommendations of a JSON content
JsonFindings(answer) ==
    IF answer = "json_missing_fields"
    THEN [summary |-> [text |-> "No summary provided"], insights |-> <<>>,
          recommendations |-> <<>>]
    ELSE [summary |-> [text |-> "summary of the content"],
          insights |-> <<Insight("insight of the content", 90, <<"hr">>)>>,
          recommendations |-> <<Recommendation("recommendation of the content", 3)>>]

\* lines 233-245: summary, insights and recommendations of a content that is
\* no JSON; Insight and Recommendation get their default confidence 1.0 and
\* priority 1
LineFindings(answer) ==
    IF answer = "non_json_lines"
    THEN [summary |-> [text |-> "first line of the content"],
          insights |-> <<Insight("text after Insight:", 100, <<>>)>>,
          recommendations |-> <<Recommendation("text after Recommendation:", 1)>>]
    ELSE [summary |-> [text |-> "first line of the content"], insights |-> <<>>,
          recommendations |-> <<>>]

\* OpenAIProvider.generate_analysis: the result handed to the caller, the answer
\* of the API (None without a call), the number of API calls made and whether
\* the fallback ran
generate_analysis(analysis_type, pd, key, answer) ==
    IF key = None
    THEN \* line 104 subscripts self.api_key before the check of line 108
         [result |-> Raised("TypeError", "generate_analysis"),
          answer |-> None, api_calls |-> 0, mock_called |-> FALSE]
    ELSE IF key = ""
    THEN [result |-> _generate_mock_response(analysis_type, pd),
          answer |-> None, api_calls |-> 0, mock_called |-> TRUE]
    ELSE IF DispatchOf(answer) = "mock"
    THEN [result |-> _generate_mock_response(analysis_type, pd),
          answer |-> answer, api_calls |-> ApiCallsMade(key, answer), mock_called |-> TRUE]
    ELSE IF DispatchOf(answer) = "lines"
    THEN [result |-> Returned(ResponseOf(analysis_type, pd, "lines",
                                         LineFindings(answer).summary,
                                         LineFindings(answer).insights,
                                         LineFindings(answer).recommendations, Absent)),
          answer |-> answer, api_calls |-> ApiCallsMade(key, answer), mock_called |-> FALSE]
    ELSE [result |-> Returned(ResponseOf(analysis_type, pd, "json",
                                         JsonFindings(answer).summary,
                                         JsonFindings(answer).insights,
                                         JsonFindings(answer).recommendations,
                                         ProcessedWindows(pd))),
          answer |-> answer, api_calls |-> ApiCallsMade(key, answer), mock_called |-> FALSE]

\* a request arrives at one of the endpoints (lines 219-235, 456-531)
ReceiveRequest ==
    /\ pc = "idle"
    /\ \E req \in Requests :
          /\ request' = req
          /\ pc' = IF IsTrendBranch(req) THEN "windows" ELSE "fetch"
    /\ UNCHANGED <<store, api_key, windows_data, patient_data, llm, outcome>>
    /\ UNCHANGED <<genVars, fbVars, promptVars, simVars, procVars, alertVars>>

\* analyze_patient_data lines 268-369: one pass of the window loop
BuildWindow ==
    /\ pc = "windows"
    /\ Len(windows_data) < request.window_count
    /\ windows_data' = Append(windows_data, WindowInfo(request, Len(windows_data), store))
    /\ UNCHANGED <<store, api_key, request, pc, patient_data, llm, outcome>>
    /\ UNCHANGED <<genVars, fbVars, promptVars, simVars, procVars, alertVars>>

\* analyze_patient_data lines 371-390: after the loop
FinishWindows ==
    /\ pc = "windows"
    /\ Len(windows_data) >= request.window_count
    /\ IF windows_data = <<>>
       THEN /\ outcome' = [status |-> 404]
            /\ pc' = "done"
            /\ UNCHANGED patient_data
       ELSE /\ patient_data' =
                 [fetch_patient_data(store, calculated_start_time(request), request.end_time)
                     EXCEPT !.windows = Some(windows_data),
                            !.window_count = Some(request.window_count),
                            !.window_duration_hours = Some(request.window_duration_hours),
                            !.window_interval_hours = Some(request.window_interval_hours)]
            /\ pc' = "analyze"
            /\ UNCHANGED outcome
    /\ UNCHANGED <<store, api_key, request, windows_data, llm>>
    /\ UNCHANGED <<genVars, fbVars, promptVars, simVars, procVars, alertVars>>

\* analyze_patient_data lines 419-446: the other analysis types
FetchData ==
    /\ pc = "fetch"
    /\ LET pd == fetch_patient_data(store, request.start_time, request.end_time)
           comparison == fetch_patient_data(store, request.comparison_start_time,
                                            request.comparison_end_time)
       IN  IF pd.vitals = {}
           THEN /\ outcome' = [status |-> 404]
                /\ pc' = "done"
                /\ UNCHANGED patient_data
           ELSE /\ patient_data' =
                     IF request.analysis_type = COMPARATIVE
                            /\ request.class = "ComparativeAnalysisRequest"
                     THEN [pd EXCEPT !.comparison_data = Some(comparison.vitals)]
                     ELSE pd
                /\ pc' = "analyze"
                /\ UNCHANGED outcome
    /\ UNCHANGED <<store, api_key, request, windows_data, llm>>
    /\ UNCHANGED <<genVars, fbVars, promptVars, simVars, procVars, alertVars>>

\* analyze_patient_data lines 448-454: the provider is awaited
GenerateAnalysis ==
    /\ pc = "analyze"
    /\ \E answer \in LLMOutcomes :
          llm' = generate_analysis(request.analysis_type, patient_data, api_key, answer)
    /\ pc' = "respond"
    /\ UNCHANGED <<store, api_key, request, windows_data, patient_data, outcome>>
    /\ UNCHANGED <<genVars, fbVars, promptVars, simVars, procVars, alertVars>>

\* the endpoint returns: analyze_patient_data line 454, and for
\* /analyze/trend-analysis the wrapper analyze_trends lines 531-569, where
\* len(getattr(resultado, 'windows', [])) raises TypeError on windows = None
Respond ==
    /\ pc = "respond"
    /\ outcome' =
          IF llm.result.status = "raised"
          THEN [status |-> 500, exception |-> llm.result.exception]
          ELSE IF request.endpoint = "/analyze/trend-analysis"
                    /\ llm.result.response.windows = Absent
          THEN [status |-> 500, exception |-> "TypeError"]
          ELSE [status |-> 200, body |-> llm.result.response]
    /\ pc' = "done"
    /\ UNCHANGED <<store, api_key, request, windows_data, patient_data, llm>>
    /\ UNCHANGED <<genVars, fbVars, promptVars, simVars, procVars, alertVars>>

\* the simulator as constructed with the defaults
GenIdle ==
    /\ condition = None
    /\ baselines = InitialBaselines(None, 0)
    /\ trends = [s \in SignalNames |-> 0]
    /\ settings = [use_circadian_rhythms |-> TRUE, simulate_meals |-> TRUE,
                   simulate_sleep |-> TRUE, meal_times |-> <<7, 12, 19>>,
                   sleep_start_hour |-> 23, sleep_duration_hours |-> 8]
    /\ signals = NoSample
    /\ factors = NoFactors
    /\ ticks = 0

\* the llm-service before a request: any store content, any key configuration
InitLLM ==
    /\ store \in Stores
    /\ api_key \in ApiKeys
    /\ request = None
    /\ pc = "idle"
    /\ windows_data = <<>>
    /\ patient_data = None
    /\ llm = None
    /\ outcome = None
    /\ GenIdle
    /\ FallbackIdle
    /\ PromptIdle
    /\ SimIdle
    /\ ProcIdle
    /\ AlertIdle

NextLLM ==
    \/ ReceiveRequest
    \/ BuildWindow
    \/ FinishWindows
    \/ FetchData
    \/ GenerateAnalysis
    \/ Respond

SpecLLM == InitLLM /\ [][NextLLM]_vars

(***************************************************************************)
(*        OpenAIProvider._generate_mock_response called on its own         *)
(***************************************************************************)

\* bounds of the calls of the fallback on its own
MaxFbWindows == 3
MaxInvocations == 2

\* the values a window may hold for a measurement type, in time order; the
\* levels give percent changes on both sides of and exactly on the thresholds
\* 10, -5, -10 and -15, a first average of 0, and an average of two readings
FbLevels ==
    [hr       |-> {<<0>>, <<79>>, <<80>>, <<81>>, <<100>>, <<100, 120>>},
     oxygen   |-> {<<100>>, <<94>>, <<90>>, <<88>>},
     activity |-> {<<100>>, <<88>>, <<85>>, <<80>>},
     glucose  |-> {<<100>>, <<130>>}]

\* the values of a measurement type in each of n windows; <<>> is a window
\* without a reading of the type
FbSeries(mt, n) == [1..n -> FbLevels[mt] \cup {<<>>}]

\* models.VitalSign: the readings of window k (two hours long, the first one
\* starting at start_time) for the values vals
FbReadings(mt, vals, start_time, k) ==
    {[timestamp |-> start_time + 2 * (k - 1) + (j - 1), measurement_type |-> mt,
      value |-> vals[j]] : j \in 1..Len(vals)}

\* models.PatientData with windows that carry their readings under "vitals":
\* n windows holding the series of the type mt and, with companion, one
\* bp_sys reading of 120 each; params tells whether the window parameters are
\* set
FbPatientData(n, mt, series, companion, params, end_time) ==
    LET start_time == end_time - 2 * n
        vitalsOf(k) ==
            FbReadings(mt, series[k], start_time, k)
                \cup (IF companion THEN FbReadings("bp_sys", <<120>>, start_time, k) ELSE {})
    IN  [vitals |-> UNION {vitalsOf(k) : k \in 1..n},
         start_time |-> start_time,
         end_time |-> end_time,
         comparison_data |-> Absent,
         windows |-> Some([k \in 1..n |->
                        [window_index |-> k - 1,
                         window_label |-> <<"Window", k>>,
                         start_time |-> start_time + 2 * (k - 1),
                         end_time |-> start_time + 2 * k,
                         vitals |-> vitalsOf(k),
                         stats |-> WindowStats(vitalsOf(k))]]),
         window_count |-> IF params THEN Some(n) ELSE Absent,
         window_duration_hours |-> IF params THEN Some(2) ELSE Absent,
         window_interval_hours |-> IF params THEN Some(0) ELSE Absent]

\* _generate_mock_response is called with the arguments fb_type and fb_data;
\* the response carries timestamp = datetime.utcnow(), later for a later call
InvokeFallbackMutant ==
    /\ fb_type /= None
    /\ Len(fb_results) < MaxInvocations
    /\ fb_results' = Append(fb_results,
                            [result |-> _generate_mock_response(fb_type, fb_data),
                             timestamp |-> Len(fb_results) + 1])
    /\ fb_data' = [fb_data EXCEPT !.windows = Absent]
    /\ UNCHANGED fb_type
    /\ UNCHANGED <<genVars, llmVars, promptVars, simVars, procVars, alertVars>>

InvokeFallback ==
    /\ fb_type /= None
    /\ Len(fb_results) < MaxInvocations
    /\ fb_results' = Append(fb_results,
                            [result |-> _generate_mock_response(fb_type, fb_data),
                             timestamp |-> Len(fb_results) + 1])
    /\ UNCHANGED <<fb_type, fb_data>>
    /\ UNCHANGED <<genVars, llmVars, promptVars, simVars, procVars, alertVars>>

\* the arguments of the calls: every analysis type, every PatientData of the
\* family above
InitFallback ==
    /\ fb_type \in AnalysisType
    /\ \E n \in 1..MaxFbWindows, mt \in DOMAIN FbLevels, companion \in BOOLEAN,
          params \in BOOLEAN, e \in EndTimes :
          \E series \in FbSeries(mt, n) :
              fb_data = FbPatientData(n, mt, series, companion, params, e)
    /\ fb_results = <<>>
    /\ GenIdle
    /\ LLMIdle
    /\ PromptIdle
    /\ SimIdle
    /\ ProcIdle
    /\ AlertIdle

NextFallback == InvokeFallback

SpecFallback == InitFallback /\ [][NextFallback]_vars

(***************************************************************************)
(*                    OpenAIProvider.format_prompt                         *)
(***************************************************************************)

\* bound of the format_prompt model: the most readings of one type
MaxSeries == 45

\* models.VitalSign: reading number t of a measurement type
PromptReading(t) ==
    [timestamp |-> t, measurement_type |-> "hr", value |-> 70 + (t % 3), is_anomaly |-> FALSE]

\* the readings of one type as patient_data.vitals lists them: n readings,
\* oldest first, newest first, or oldest first with the newest moved to the front
PromptInputs ==
    {[i \in 1..n |-> PromptReading(i)] : n \in 1..MaxSeries}
    \cup {[i \in 1..n |-> PromptReading(n + 1 - i)] : n \in 1..MaxSeries}
    \cup {[i \in 1..n |-> PromptReading(IF i = 1 THEN n ELSE i - 1)] : n \in 1..MaxSeries}

\* format_prompt line 325: vitals.sort(key=lambda v: v.timestamp), a stable sort
RECURSIVE SortByTimestamp(_)
SortByTimestamp(vitals) ==
    IF vitals = <<>> THEN <<>>
    ELSE LET k == CHOOSE i \in 1..Len(vitals) :
                     \A j \in 1..Len(vitals) :
                        \/ vitals[i].timestamp < vitals[j].timestamp
                        \/ vitals[i].timestamp = vitals[j].timestamp /\ i <= j
             rest == [i \in 1..(Len(vitals) - 1) |-> IF i < k THEN vitals[i] ELSE vitals[i + 1]]
         IN  <<vitals[k]>> \o SortByTimestamp(rest)

\* the slice vitals[::step]
Stride(vitals, step) ==
    [i \in 1..((Len(vitals) + step - 1) \div step) |-> vitals[(i - 1) * step + 1]]

\* format_prompt lines 327-329
sampled_vitals(vitals) ==
    LET sorted == SortByTimestamp(vitals)
        sample_size == Min(20, Len(sorted))
        step == Max(1, Len(sorted) \div sample_size)
    IN  Stride(sorted, step)

\* format_prompt lines 322-333 for one measurement type: the readings that
\* are written into the prompt
FormatPrompt ==
    /\ prompt_vitals /= <<>>
    /\ prompt_samples = Absent
    /\ prompt_samples' = Some(sampled_vitals(prompt_vitals))
    /\ UNCHANGED prompt_vitals
    /\ UNCHANGED <<genVars, llmVars, fbVars, simVars, procVars, alertVars>>

InitPrompt ==
    /\ prompt_vitals \in PromptInputs
    /\ prompt_samples = Absent
    /\ GenIdle
    /\ LLMIdle
    /\ FallbackIdle
    /\ SimIdle
    /\ ProcIdle
    /\ AlertIdle

NextPrompt == FormatPrompt

SpecPrompt == InitPrompt /\ [][NextPrompt]_vars

(***************************************************************************)
(*     wearable-simulator process: config.settings and WearableSimulator    *)
(***************************************************************************)

\* bound of the process model: the passes of the streaming loop that are
\* followed, and the largest batch size
MaxLoop == 2

\* the numbers that float() reads from the texts the environment may hold, in
\* thousandths; a text without an entry ("abc", "x") is no number
Literals ==
    {<<"4", 4000>>, <<"0.05", 50>>, <<"61", 61000>>, <<"0.5", 500>>, <<"1.5", 1500>>,
     <<"3", 3000>>, <<"24", 24000>>, <<"7.5", 7500>>, <<"13", 13000>>, <<"6", 6000>>,
     <<"7", 7000>>, <<"12", 12000>>, <<"19", 19000>>, <<"25", 25000>>}

IsFloatLiteral(text) == \E l \in Literals : l[1] = text

float(text) == (CHOOSE l \in Literals : l[1] = text)[2]

\* the texts int() accepts, which are also the texts str.isdigit() is true of
IntLiterals == {"4", "61", "3", "24", "13", "6", "7", "12", "19", "25"}

int(text) == float(text) \div 1000

\* the environment of the process; MEAL_TIMES is held as the list of its
\* comma-separated items
Environments ==
    [SAMPLE_RATE : {None, "4", "0.05", "61", "0.5", "abc"},
     NOISE_LEVEL : {None, "1.5", "abc"},
     SLEEP_START_HOUR : {None, "3", "24", "7.5"},
     SLEEP_DURATION_HOURS : {None, "6", "13", "7.5"},
     MEAL_TIMES : {<<None>>, <<"7", "25">>, <<"7", "x", "19">>},
     CONDITION : {None, "hypoxia"},
     BATCH_MODE : {"false", "true"}]

\* Settings.sample_rate (lines 51-57): a float with ge=0.1, le=60.0
sample_rate_valid(text) ==
    IsFloatLiteral(text) /\ 100 <= float(text) /\ float(text) <= 60000

\* Settings.validate_ranges (lines 115-136) followed by the constraints of the
\* field (lines 58-64, 95-108)
noise_level_valid(text) ==
    /\ IsFloatLiteral(text)
    /\ 0 <= float(text) /\ float(text) <= 1000
    /\ 0 <= float(text) /\ float(text) <= 1000

sleep_start_hour_valid(text) ==
    /\ text \in IntLiterals
    /\ 0 <= int(text) /\ int(text) <= 24
    /\ 0 <= int(text) /\ int(text) <= 23

sleep_duration_hours_valid(text) ==
    /\ text \in IntLiterals
    /\ 0 <= int(text) /\ int(text) <= 24
    /\ 4 <= int(text) /\ int(text) <= 12

\* Settings(): the fields of the environment are validated, an unset one takes
\* its default without validation; MEAL_TIMES is a str field without validator
SettingsAccepts(e) ==
    /\ e.SAMPLE_RATE /= None => sample_rate_valid(e.SAMPLE_RATE)
    /\ e.NOISE_LEVEL /= None => noise_level_valid(e.NOISE_LEVEL)
    /\ e.SLEEP_START_HOUR /= None => sleep_start_hour_valid(e.SLEEP_START_HOUR)
    /\ e.SLEEP_DURATION_HOURS /= None => sleep_duration_hours_valid(e.SLEEP_DURATION_HOURS)

\* Settings.meal_times (lines 87-93): the items that are digits, as integers
RECURSIVE meal_times(_)
meal_times(items) ==
    IF items = <<>> THEN <<>>
    ELSE (IF Head(items) \in IntLiterals THEN <<int(Head(items))>> ELSE <<>>)
            \o meal_times(Tail(items))

\* the Settings instance made from an environment that is accepted
SettingsOf(e) ==
    [sample_rate |-> IF e.SAMPLE_RATE = None THEN 4000 ELSE float(e.SAMPLE_RATE),
     noise_level |-> IF e.NOISE_LEVEL = None THEN 20 ELSE float(e.NOISE_LEVEL),
     sleep_start_hour |-> IF e.SLEEP_START_HOUR = None THEN 23 ELSE int(e.SLEEP_START_HOUR),
     sleep_duration_hours |-> IF e.SLEEP_DURATION_HOURS = None THEN 8
                              ELSE int(e.SLEEP_DURATION_HOURS),
     meal_times_str |-> IF e.MEAL_TIMES = <<None>> THEN <<"7", "12", "19">> ELSE e.MEAL_TIMES,
     use_circadian_rhythms |-> TRUE,
     simulate_meals |-> TRUE,
     simulate_sleep |-> TRUE]

\* datetime.isoformat(): an aware UTC datetime ends in "+00:00", a naive one
\* has no suffix
isoformat(instant, tzinfo) ==
    [instant |-> instant, suffix |-> IF tzinfo = "utc" THEN "+00:00" ELSE ""]

\* timestamp.hour of an instant given in seconds
HourOf(instant) == (instant \div 3600) % 24

\* timedelta / int: the quotient rounded to the resolution, ties to even
DivRound(a, b) == PyRound(a, b) \div b

\* the instant the process is started at: 13:00 of the third day
StartInstants == {219600}

\* int(os.getenv('BACKFILL_HOURS', '24'))
BackfillHours == {1, 24}

\* the draws of rng.normal in the generate calls of the process
SimNoiseDraws == {[s \in SignalNames |-> 30]}

\* config/settings.py line 156, run at import: settings = Settings()
LoadSettings ==
    /\ sim_pc = "off"
    /\ IF SettingsAccepts(env)
       THEN /\ config' = SettingsOf(env)
            /\ settings' = [use_circadian_rhythms |-> TRUE, simulate_meals |-> TRUE,
                            simulate_sleep |-> TRUE,
                            meal_times |-> meal_times(SettingsOf(env).meal_times_str),
                            sleep_start_hour |-> SettingsOf(env).sleep_start_hour,
                            sleep_duration_hours |-> SettingsOf(env).sleep_duration_hours]
            /\ sim_pc' = "imported"
       ELSE /\ sim_pc' = "failed"
            /\ UNCHANGED <<config, settings>>
    /\ UNCHANGED <<condition, baselines, trends, signals, factors, ticks>>
    /\ UNCHANGED <<env, connected, clock, loop, published>>
    /\ UNCHANGED <<llmVars, fbVars, promptVars, procVars, alertVars>>

\* WearableSimulator.__init__ (lines 56-92): the generator is made for
\* os.getenv('CONDITION'); int(os.getenv('SAMPLE_RATE', '4')) raises ValueError
\* on a text that is no integer
Construct ==
    /\ sim_pc = "imported"
    /\ IF env.SAMPLE_RATE /= None /\ env.SAMPLE_RATE \notin IntLiterals
       THEN /\ sim_pc' = "failed"
            /\ UNCHANGED <<condition, baselines, trends>>
       ELSE /\ sim_pc' = "constructed"
            /\ condition' = env.CONDITION
            /\ \E jitter \in OxygenJitter :
                  baselines' = InitialBaselines(env.CONDITION, jitter)
            /\ trends' = [s \in SignalNames |-> 0]
    /\ UNCHANGED <<settings, signals, factors, ticks>>
    /\ UNCHANGED <<env, config, connected, clock, loop, published>>
    /\ UNCHANGED <<llmVars, fbVars, promptVars, procVars, alertVars>>

\* WearableSimulator.run (lines 315-344) up to the first pass of the loop:
\* connect() fails and the process exits, or the batch is laid out
\* (generate_batch lines 285-288) or the streaming loop is entered
Run ==
    /\ sim_pc = "constructed"
    /\ \E connects \in BOOLEAN :
          IF ~connects
          THEN sim_pc' = "exited" /\ UNCHANGED loop
          ELSE IF env.BATCH_MODE = "true"
          THEN /\ sim_pc' = "batch"
               /\ \E batch_size \in 1..MaxLoop, backfill_hours \in BackfillHours :
                     loop' = [i |-> 0, size |-> batch_size,
                              start_time |-> clock - backfill_hours * 3600,
                              time_step |-> DivRound(backfill_hours * 3600, batch_size)]
          ELSE /\ sim_pc' = "streaming"
               /\ loop' = [i |-> 0, size |-> MaxLoop, start_time |-> clock,
                           time_step |-> 60 \div int(IF env.SAMPLE_RATE = None THEN "4"
                                                     ELSE env.SAMPLE_RATE)]
    /\ UNCHANGED genVars
    /\ UNCHANGED <<env, config, connected, clock, published>>
    /\ UNCHANGED <<llmVars, fbVars, promptVars, procVars, alertVars>>

\* WearableSimulator.on_connect (lines 100-111), called by the network thread
OnConnect ==
    /\ sim_pc \in {"batch", "streaming"}
    /\ ~connected
    /\ connected' = TRUE
    /\ UNCHANGED genVars
    /\ UNCHANGED <<env, config, sim_pc, clock, loop, published>>
    /\ UNCHANGED <<llmVars, fbVars, promptVars, procVars, alertVars>>

\* WearableSimulator.on_disconnect (lines 113-123) when reconnect() gives up
OnDisconnect ==
    /\ sim_pc \in {"batch", "streaming"}
    /\ connected
    /\ connected' = FALSE
    /\ UNCHANGED genVars
    /\ UNCHANGED <<env, config, sim_pc, clock, loop, published>>
    /\ UNCHANGED <<llmVars, fbVars, promptVars, procVars, alertVars>>

\* WearableSimulator.generate_and_publish (lines 231-273).  timestamp is
\* Absent (streaming) or Some(instant) (batch).  generate() is called without
\* an argument, so it works for datetime.now() (the local clock, taken to run
\* on UTC) and writes that instant, isoformat() + 'Z', under 'timestamp';
\* sample.update then replaces the entry.  A publish the broker client
\* refuses hands nothing on.
generate_and_publish(timestamp) ==
    IF ~connected THEN UNCHANGED <<trends, signals, factors, ticks, published>>
    ELSE \E td \in TrendDrawVectors, nd \in SimNoiseDraws, accepted \in BOOLEAN :
            LET time_effects == _get_circadian_factor(HourOf(clock), settings)
                newTrends == [s \in SignalNames |-> TrendUpdate(trends[s], td[s])]
                value(s) == SignalValue(s, baselines[s], newTrends[s], time_effects[s], nd[s])
                generated == [timestamp |-> [isoformat(clock, None) EXCEPT !.suffix = "Z"],
                              hr |-> value("hr"), bp_sys |-> value("bp_sys"),
                              bp_dia |-> value("bp_dia"), oxygen |-> value("oxygen"),
                              glucose |-> value("glucose"), activity |-> value("activity")]
                sample == [timestamp |-> IF timestamp /= Absent
                                         THEN isoformat(timestamp[1], "utc")
                                         ELSE isoformat(clock, "utc"),
                           device_id |-> "wearable-1",
                           patient_id |-> "patient-1",
                           condition |-> IF condition /= None THEN condition ELSE "healthy",
                           hr |-> generated.hr, bp_sys |-> generated.bp_sys,
                           bp_dia |-> generated.bp_dia, oxygen |-> generated.oxygen,
                           glucose |-> generated.glucose, activity |-> generated.activity]
            IN  /\ trends' = newTrends
                /\ factors' = [timestamp |-> HourOf(clock), effects |-> time_effects]
                /\ signals' = [timestamp |-> HourOf(clock),
                               values |-> [s \in SignalNames |-> value(s)]]
                /\ ticks' = ticks + 1
                /\ published' = IF accepted THEN Append(published, sample) ELSE published

\* one pass of the streaming loop of run (lines 346-357)
PublishStreaming ==
    /\ sim_pc = "streaming"
    /\ loop.i < loop.size
    /\ generate_and_publish(Absent)
    /\ loop' = [loop EXCEPT !.i = @ + 1]
    /\ clock' = clock + loop.time_step
    /\ UNCHANGED <<condition, baselines, settings>>
    /\ UNCHANGED <<env, config, sim_pc, connected>>
    /\ UNCHANGED <<llmVars, fbVars, promptVars, procVars, alertVars>>

\* one pass of the loop of generate_batch (lines 293-298)
PublishBatch ==
    /\ sim_pc = "batch"
    /\ loop.i < loop.size
    /\ generate_and_publish(Some(loop.start_time + loop.i * loop.time_step))
    /\ loop' = [loop EXCEPT !.i = @ + 1]
    /\ UNCHANGED <<condition, baselines, settings>>
    /\ UNCHANGED <<env, config, sim_pc, connected, clock>>
    /\ UNCHANGED <<llmVars, fbVars, promptVars, procVars, alertVars>>

\* run lines 333-338 and 359-366: the batch is done or the loop is left
Shutdown ==
    /\ \/ sim_pc = "batch" /\ loop.i = loop.size
       \/ sim_pc = "streaming"
    /\ sim_pc' = "exited"
    /\ connected' = FALSE
    /\ UNCHANGED genVars
    /\ UNCHANGED <<env, config, clock, loop, published>>
    /\ UNCHANGED <<llmVars, fbVars, promptVars, procVars, alertVars>>

\* the process before its start
InitSim ==
    /\ env \in Environments
    /\ config = None
    /\ sim_pc = "off"
    /\ connected = FALSE
    /\ clock \in StartInstants
    /\ loop = None
    /\ published = <<>>
    /\ GenIdle
    /\ LLMIdle
    /\ FallbackIdle
    /\ PromptIdle
    /\ ProcIdle
    /\ AlertIdle

NextSim ==
    \/ LoadSettings
    \/ Construct
    \/ Run
    \/ OnConnect
    \/ OnDisconnect
    \/ PublishStreaming
    \/ PublishBatch
    \/ Shutdown

SpecSim == InitSim /\ [][NextSim]_vars

(***************************************************************************)
(*                          data-processor                                 *)
(***************************************************************************)

\* bound of the data-processor model: the number of messages handled
MaxMessages == 2

\* data-processor VITAL_RANGES, in thousandths
VITAL_RANGES ==
    [hr       |-> <<60000, 100000>>,
     bp_sys   |-> <<100000, 140000>>,
     bp_dia   |-> <<60000, 90000>>,
     oxygen   |-> <<95000, 100000>>,
     glucose  |-> <<70000, 120000>>,
     activity |-> <<0, 1000>>]

\* the values a payload may carry for each signal, as the generator rounds
\* and clamps them: below, on and above the limits of the ranges
PayloadValues ==
    [hr       |-> {59000, 60000, 101000},
     bp_sys   |-> {100000, 141000},
     bp_dia   |-> {59000, 90000},
     oxygen   |-> {94000, 95000, 100000},
     glucose  |-> {69000, 120000},
     activity |-> {100, 500, 900}]

\* the JSON payloads arriving on the topic: the samples of the simulator and
\* a payload with an empty patient_id
Payloads ==
    {[timestamp |-> isoformat(219600, "utc"), device_id |-> "wearable-1",
      patient_id |-> p, condition |-> "healthy",
      hr |-> hr, bp_sys |-> bs, bp_dia |-> bd, oxygen |-> ox, glucose |-> gl, activity |-> ac]
        : p \in {"patient-1"}, hr \in PayloadValues.hr, bs \in PayloadValues.bp_sys,
          bd \in PayloadValues.bp_dia, ox \in PayloadValues.oxygen,
          gl \in PayloadValues.glucose, ac \in PayloadValues.activity}
    \cup
    {[timestamp |-> isoformat(219600, "utc"), device_id |-> "wearable-1",
      patient_id |-> "", condition |-> "healthy",
      hr |-> 80000, bp_sys |-> 120000, bp_dia |-> 75000, oxygen |-> 98000,
      glucose |-> 95000, activity |-> 500]}

\* datetime.fromisoformat(timestamp.replace('Z', '+00:00'))
fromisoformat(text) ==
    [instant |-> text.instant,
     tzinfo |-> IF text.suffix \in {"Z", "+00:00"} THEN "utc" ELSE None]

\* data-processor process_data
process_data(measurement_type, value, timestamp, patient_id, device_id) ==
    LET min_val == VITAL_RANGES[measurement_type][1]
        max_val == VITAL_RANGES[measurement_type][2]
    IN  [measurement_type |-> measurement_type,
         value |-> value,
         timestamp |-> fromisoformat(timestamp),
         patient_id |-> patient_id,
         device_id |-> device_id,
         is_anomaly |-> IF measurement_type \in DOMAIN VITAL_RANGES
                        THEN value < min_val \/ value > max_val
                        ELSE FALSE]

\* data-processor on_message: a payload lacking one of timestamp, patient_id
\* and device_id is dropped; otherwise every signal of the payload goes
\* through process_data and store_data
OnMessage ==
    /\ message_count < MaxMessages
    /\ \E payload \in Payloads :
          IF payload.patient_id = ""
          THEN UNCHANGED <<message_count, written>>
          ELSE /\ written' = [k \in 1..Len(SignalOrder) |->
                                 process_data(SignalOrder[k], payload[SignalOrder[k]],
                                              payload.timestamp, payload.patient_id,
                                              payload.device_id)]
               /\ message_count' = message_count + 1
    /\ UNCHANGED <<genVars, llmVars, fbVars, promptVars, simVars, alertVars>>

\* the data-processor after its start
InitProcessor ==
    /\ ProcIdle
    /\ GenIdle
    /\ LLMIdle
    /\ FallbackIdle
    /\ PromptIdle
    /\ SimIdle
    /\ AlertIdle

NextProcessor == OnMessage

SpecProcessor == InitProcessor /\ [][NextProcessor]_vars

(***************************************************************************)
(*                           alert-manager                                 *)
(*  Values and limits are in the units of the readings (bpm, mmHg, %).     *)
(***************************************************************************)

\* bound of the alert-manager model: the number of monitoring cycles
MaxCycles == 2

\* models.AlertThreshold
AlertThreshold(measurement_type, patient_id, min_value, max_value, severity) ==
    [measurement_type |-> measurement_type, patient_id |-> patient_id,
     min_value |-> min_value, max_value |-> max_value, severity |-> severity]

\* a default threshold: no patient, both limits set
DefaultThreshold(mt, min_value, max_value, severity) ==
    AlertThreshold(mt, None, Some(min_value), Some(max_value), severity)

\* alert-manager DEFAULT_THRESHOLDS
DEFAULT_THRESHOLDS ==
    [hr       |-> <<DefaultThreshold("hr", 60, 100, "medium"),
                    DefaultThreshold("hr", 50, 110, "low"),
                    DefaultThreshold("hr", 40, 130, "high")>>,
     bp_sys   |-> <<DefaultThreshold("bp_sys", 100, 120, "low"),
                    DefaultThreshold("bp_sys", 90, 140, "medium"),
                    DefaultThreshold("bp_sys", 80, 160, "high"),
                    DefaultThreshold("bp_sys", 70, 180, "critical")>>,
     bp_dia   |-> <<DefaultThreshold("bp_dia", 60, 80, "low"),
                    DefaultThreshold("bp_dia", 50, 90, "medium"),
                    DefaultThreshold("bp_dia", 40, 100, "high"),
                    DefaultThreshold("bp_dia", 30, 110, "critical")>>,
     oxygen   |-> <<DefaultThreshold("oxygen", 95, 100, "low"),
                    DefaultThreshold("oxygen", 90, 94, "medium"),
                    DefaultThreshold("oxygen", 85, 89, "high"),
                    DefaultThreshold("oxygen", 0, 84, "critical")>>,
     glucose  |-> <<DefaultThreshold("glucose", 70, 140, "low"),
                    DefaultThreshold("glucose", 54, 180, "medium"),
                    DefaultThreshold("glucose", 0, 250, "high"),
                    DefaultThreshold("glucose", 0, 50, "critical"),
                    DefaultThreshold("glucose", 251, 500, "critical")>>,
     activity |-> <<DefaultThreshold("activity", 0, 1, "low")>>]

\* a value of the dict thresholds: initialize_thresholds stores a list of
\* AlertThreshold, create_threshold stores one AlertThreshold
ThresholdList(items) == [kind |-> "list", value |-> items]
ThresholdModel(item) == [kind |-> "model", value |-> item]

\* the key f"{measurement_type}:{patient_id}" of the dict thresholds
ThresholdKey(measurement_type, patient_id) == <<measurement_type, patient_id>>

Patients == {"patient-1", "patient-2"}

\* the last values of one patient in the window of the query, by type
LatestChoices ==
    {<<>>,
     [hr |-> 80],
     [hr |-> 105],
     [hr |-> 135],
     [bp_sys |-> 190],
     [hr |-> 135, oxygen |-> 98]}

\* the bodies sent to POST /thresholds
ThresholdRequests ==
    {AlertThreshold("hr", None, Some(50), Some(120), "medium"),
     AlertThreshold("hr", "patient-1", Some(50), Some(120), "high")}

\* sorted(thresholds_list, key=lambda x: x.severity, reverse=True):
\* AlertSeverity is a str enum, so the keys compare as the strings
\* "critical" < "high" < "low" < "medium"; the sort is stable
SortedBySeverity(thresholds_list) ==
    SelectSeq(thresholds_list, LAMBDA t : t.severity = "medium")
        \o SelectSeq(thresholds_list, LAMBDA t : t.severity = "low")
        \o SelectSeq(thresholds_list, LAMBDA t : t.severity = "high")
        \o SelectSeq(thresholds_list, LAMBDA t : t.severity = "critical")

\* check_for_anomalies lines 214-215: the value is outside the threshold
Exceeds(value, threshold) ==
    \/ threshold.min_value /= Absent /\ value < threshold.min_value[1]
    \/ threshold.max_value /= Absent /\ value > threshold.max_value[1]

\* check_for_anomalies lines 187-249 for one record of the query result:
\* the alert it creates (a set with no or one alert), or the exception that
\* iterating a single AlertThreshold raises (the iteration yields pairs of
\* field name and value, which have no attribute severity)
CheckRecord(measurement_type, patient_id, value, c) ==
    LET own == ThresholdKey(measurement_type, patient_id)
        threshold_key == IF own \in DOMAIN thresholds THEN own
                         ELSE ThresholdKey(measurement_type, "global")
    IN  IF threshold_key \notin DOMAIN thresholds THEN [raised |-> FALSE, created |-> {}]
        ELSE IF thresholds[threshold_key].kind = "model"
        THEN [raised |-> TRUE, created |-> {}]
        ELSE LET ordered == SortedBySeverity(thresholds[threshold_key].value)
                 hits == SelectSeq(ordered, LAMBDA t : Exceeds(value, t))
             IN  IF hits = <<>> THEN [raised |-> FALSE, created |-> {}]
                 ELSE [raised |-> FALSE,
                       created |->
                           {[patient_id |-> patient_id,
                             measurement_type |-> measurement_type,
                             value |-> value,
                             severity |-> hits[1].severity,
                             status |-> "active",
                             alert_type |-> "threshold",
                             message |-> [critically |-> hits[1].severity = "critical",
                                          side |-> IF value < hits[1].min_value[1]
                                                   THEN "low" ELSE "high"],
                             cycle |-> c]}]

\* check_for_anomalies lines 170-252 for one measurement type: the records
\* of the patients in the order of the result; an exception ends the work
\* on the type, the alerts made before it stay
RECURSIVE CheckType(_, _, _)
CheckType(measurement_type, order, c) ==
    IF order = <<>> THEN {}
    ELSE IF measurement_type \notin DOMAIN latest[Head(order)]
    THEN CheckType(measurement_type, Tail(order), c)
    ELSE LET done == CheckRecord(measurement_type, Head(order),
                                 latest[Head(order)][measurement_type], c)
         IN  IF done.raised THEN {}
             ELSE done.created \cup CheckType(measurement_type, Tail(order), c)

\* the orders in which a query result may list the patients
PatientOrders ==
    {order \in [1..Cardinality(Patients) -> Patients] :
        \A i, j \in DOMAIN order : i /= j => order[i] /= order[j]}

\* startup_event: initialize_thresholds fills the dict with the default
\* lists under "<type>:global", then the monitor thread is started
Startup ==
    /\ ~monitoring
    /\ monitoring' = TRUE
    /\ thresholds' = [key \in {ThresholdKey(mt, "global") : mt \in DOMAIN DEFAULT_THRESHOLDS} |->
                         ThresholdList(DEFAULT_THRESHOLDS[key[1]])]
    /\ UNCHANGED <<alerts, latest, cycle>>
    /\ UNCHANGED <<genVars, llmVars, fbVars, promptVars, simVars, procVars>>

\* POST /thresholds, create_threshold
CreateThreshold ==
    /\ monitoring
    /\ \E threshold \in ThresholdRequests :
          LET patient_id == IF threshold.patient_id /= None THEN threshold.patient_id
                            ELSE "global"
              threshold_key == ThresholdKey(threshold.measurement_type, patient_id)
          IN  thresholds' = [key \in DOMAIN thresholds \cup {threshold_key} |->
                                IF key = threshold_key THEN ThresholdModel(threshold)
                                ELSE thresholds[key]]
    /\ UNCHANGED <<monitoring, alerts, latest, cycle>>
    /\ UNCHANGED <<genVars, llmVars, fbVars, promptVars, simVars, procVars>>

\* one cycle of alert_monitor_thread: check_for_anomalies over the six
\* types; cleanup_old_alerts only removes resolved alerts, and no alert of
\* the model is resolved
CheckForAnomalies ==
    /\ monitoring
    /\ cycle < MaxCycles
    /\ \E order \in PatientOrders :
          alerts' = alerts \cup UNION {CheckType(mt, order, cycle + 1) : mt \in SignalNames}
    /\ cycle' = cycle + 1
    /\ UNCHANGED <<monitoring, thresholds, latest>>
    /\ UNCHANGED <<genVars, llmVars, fbVars, promptVars, simVars, procVars>>

\* the alert-manager before its start, over any content of the store
InitAlerts ==
    /\ monitoring = FALSE
    /\ thresholds = <<>>
    /\ alerts = {}
    /\ latest \in [Patients -> LatestChoices]
    /\ cycle = 0
    /\ GenIdle
    /\ LLMIdle
    /\ FallbackIdle
    /\ PromptIdle
    /\ SimIdle
    /\ ProcIdle

NextAlerts ==
    \/ Startup
    \/ CreateThreshold
    \/ CheckForAnomalies

SpecAlerts == InitAlerts /\ [][NextAlerts]_vars

----
\* C4: after any sequence of generate calls, every emitted value of a non-oxygen
\* signal lies within [min - 0.3*range, max + 0.3*range] of its normal range,
\* also after the final rounding.
C4_NonOxygenWithinBounds ==
    signals /= NoSample =>
        \A s \in SignalNames \ {"oxygen"} :
            LET lo == NORMAL_RANGES[s][1]
                hi == NORMAL_RANGES[s][2]
            IN  /\ 10 * signals.values[s] >= 10 * lo - 3 * (hi - lo)
                /\ 10 * signals.values[s] <= 10 * hi + 3 * (hi - lo)

\* a later call whose raw heart rate was far below the range and was clamped to
\* the lower bound, while the raw systolic pressure was clamped to the upper one
C4_Witness ==
    /\ signals /= NoSample
    /\ ticks > 1
    /\ signals.values["hr"] = 48000
    /\ signals.values["bp_sys"] = 152000

\* C5: after any sequence of generate calls, for any condition (hypoxia
\* included), the emitted oxygen value lies within [90.0, 100.0] and has at
\* most one decimal place.
C5_OxygenWithinRange ==
    signals /= NoSample =>
        /\ signals.values["oxygen"] >= 90000
        /\ signals.values["oxygen"] <= 100000
        /\ signals.values["oxygen"] % 100 = 0

\* a hypoxia profile (baseline 0.9 * 98 = 88.2) whose value was raised to 90.0
C5_Witness ==
    /\ signals /= NoSample
    /\ condition = "hypoxia"
    /\ baselines["oxygen"] < 90000
    /\ signals.values["oxygen"] = 90000

----
\* the Window Builder has run all passes of its loop for a trend request
WindowsBuilt ==
    /\ pc \in {"windows", "analyze", "respond", "done"}
    /\ IsTrendBranch(request)
    /\ Len(windows_data) = request.window_count

\* C1: for every outcome of the LLM collaborator (no API key, exception,
\* timeout, non-JSON content, JSON with missing or invalid fields),
\* generate_analysis returns an AnalysisResult to its caller and never raises.
C1_GenerateAnalysisNeverRaises ==
    pc = "respond" => llm.result.status = "returned"

\* C2: the deterministic fallback returns an AnalysisResult without raising for
\* every analysis kind and every PatientData, a trend-analysis input whose
\* windows and window parameters are unset included.
C2_FallbackNeverRaises ==
    (pc = "respond" /\ llm.mock_called) => llm.result.status = "returned"

\* the averages <<sum, count>> kept in the statistics of the built windows for
\* a measurement type, in window order
RECURSIVE StatAverages(_, _)
StatAverages(mt, windows) ==
    IF windows = <<>> THEN <<>>
    ELSE (IF mt \in DOMAIN Head(windows).stats THEN <<Head(windows).stats[mt].avg>> ELSE <<>>)
            \o StatAverages(mt, Tail(windows))

\* C3: when a trend-analysis request is processed end to end with the LLM
\* unavailable, every signal that has readings in at least two of the built
\* windows gets a trend insight computed from the averages of those windows
\* (stated for windows of at least one hour that do not overlap).
C3_FallbackUsesBuiltWindows ==
    (/\ pc = "respond"
     /\ IsTrendBranch(request)
     /\ request.window_duration_hours >= 1
     /\ request.window_interval_hours >= 0
     /\ llm.mock_called
     /\ llm.result.status = "returned")
    => \A mt \in SignalNames :
          LET avgs == StatAverages(mt, windows_data)
          IN  Len(avgs) >= 2 =>
                \E k \in 1..Len(llm.result.response.insights) :
                    llm.result.response.insights[k] = TrendInsightOf(mt, avgs)[1]

\* C6: for window_interval_hours = 0, window_count n >= 1 and duration d > 0
\* the built windows exactly tile [T - n*d, T]: the first starts at T - n*d,
\* each window ends where the next starts, and the last ends at T.
C6_ContiguousWindowsTile ==
    (/\ WindowsBuilt
     /\ request.window_interval_hours = 0
     /\ request.window_count >= 1
     /\ request.window_duration_hours > 0)
    => LET n == request.window_count
       IN  /\ windows_data[1].start_time
                = request.end_time - n * request.window_duration_hours
           /\ \A k \in 1..(n - 1) :
                windows_data[k].end_time = windows_data[k + 1].start_time
           /\ \A k \in 1..n : windows_data[k].start_time < windows_data[k].end_time
           /\ windows_data[n].end_time = request.end_time

\* three contiguous windows of two hours were built
C6_Witness ==
    /\ WindowsBuilt
    /\ request.window_interval_hours = 0
    /\ request.window_count = 3
    /\ request.window_duration_hours = 2
    /\ windows_data[1].start_time = request.end_time - 6
    /\ windows_data[2].start_time = request.end_time - 4

\* C7: for every n >= 1, d and g the builder uses total_span = n*d + (n-1)*g,
\* window i starts at end_time - total_span + i*(d+g), and the windows are
\* emitted in strictly increasing index order, oldest first.
C7_WindowStarts ==
    (WindowsBuilt /\ request.window_count >= 1)
    => LET n == request.window_count
           d == request.window_duration_hours
           g == request.window_interval_hours
           span == n * d + (n - 1) * g
       IN  /\ pc /= "windows" => patient_data.start_time = request.end_time - span
           /\ \A k \in 1..n :
                /\ windows_data[k].window_index = k - 1
                /\ windows_data[k].start_time = request.end_time - span + (k - 1) * (d + g)

\* three windows of two hours, one hour apart: the span is 3*2 + 2*1 = 8 hours
C7_Witness ==
    /\ WindowsBuilt
    /\ pc = "analyze"
    /\ request.window_count = 3
    /\ request.window_duration_hours = 2
    /\ request.window_interval_hours = 1
    /\ windows_data[1].start_time = request.end_time - 8
    /\ windows_data[3].start_time = request.end_time - 2

\* C8: every built window ends at min(window_start + d, end_time): no window
\* ends after the requested end time, a window that is not clamped has length
\* exactly d, and the final window ends exactly at end_time.
C8_WindowEnds ==
    (WindowsBuilt /\ request.window_count >= 1)
    => LET n == request.window_count
           d == request.window_duration_hours
       IN  /\ \A k \in 1..n :
                /\ windows_data[k].end_time <= request.end_time
                /\ windows_data[k].end_time
                      = Min(windows_data[k].start_time + d, request.end_time)
                /\ windows_data[k].start_time + d <= request.end_time
                      => windows_data[k].end_time - windows_data[k].start_time = d
           /\ windows_data[n].end_time = request.end_time

\* a window whose start plus the duration passes the end time was clamped
\* (overlapping windows: the interval is negative)
C8_Witness ==
    /\ WindowsBuilt
    /\ request.window_count >= 2
    /\ windows_data[1].start_time + request.window_duration_hours > request.end_time
    /\ windows_data[1].end_time = request.end_time

\* C9: the builder always yields exactly window_count windows with indices
\* 0..n-1 and labels "Window 1".."Window n"; a window without matching readings
\* is kept as a shell without per-signal statistics, and an empty window never
\* makes the building raise.
C9_AllWindowsKept ==
    (pc \in {"analyze", "respond", "done"} /\ IsTrendBranch(request))
    => /\ Len(windows_data) = request.window_count
       /\ \A k \in 1..Len(windows_data) :
            /\ windows_data[k].window_index = k - 1
            /\ windows_data[k].window_label = <<"Window", k>>
            /\ (\A r \in store : ~(/\ windows_data[k].start_time <= r.timestamp
                                   /\ r.timestamp < windows_data[k].end_time))
                  => DOMAIN windows_data[k].stats = {}
       /\ (pc = "done" /\ request.window_count >= 1) => outcome.status /= 404

\* three windows were built over a store with readings, the second one is a
\* shell and the first one is not
C9_Witness ==
    /\ pc = "analyze"
    /\ IsTrendBranch(request)
    /\ Len(windows_data) = 3
    /\ DOMAIN windows_data[2].stats = {}
    /\ DOMAIN windows_data[1].stats /= {}

\* C10: for a trend-analysis request, if the store holds no readings at all in
\* the full range [end_time - total_span, end_time] the request ends with a
\* not-found error and no analysis is generated; if at least one window has
\* readings the request is not rejected (stated for at least one window of
\* at least one hour, windows not overlapping).
C10_NoDataIsNotFound ==
    (/\ pc \in {"analyze", "respond", "done"}
     /\ IsTrendBranch(request)
     /\ request.window_count >= 1
     /\ request.window_duration_hours >= 1
     /\ request.window_interval_hours >= 0)
    => LET span == request.window_count * request.window_duration_hours
                     + (request.window_count - 1) * request.window_interval_hours
           inRange == {r \in store : /\ request.end_time - span <= r.timestamp
                                     /\ r.timestamp <= request.end_time}
       IN  IF inRange = {}
           THEN pc = "done" /\ outcome.status = 404
           ELSE (pc = "done" /\ \E k \in 1..Len(windows_data) :
                                    DOMAIN windows_data[k].stats /= {})
                    => outcome.status /= 404

----
\* the windows of fb_data that hold readings of the type, by position
FbDataWindows(mt) ==
    {k \in 1..Len(fb_data.windows[1]) :
        \E r \in fb_data.windows[1][k].vitals : r.measurement_type = mt}

\* sum and count of the readings of the type in window k of fb_data
FbSum(mt, k) == SumValues({r \in fb_data.windows[1][k].vitals : r.measurement_type = mt})
FbCount(mt, k) == Cardinality({r \in fb_data.windows[1][k].vitals : r.measurement_type = mt})

FbFirst(mt) == CHOOSE k \in FbDataWindows(mt) : \A j \in FbDataWindows(mt) : k <= j
FbLast(mt) == CHOOSE k \in FbDataWindows(mt) : \A j \in FbDataWindows(mt) : k >= j

\* percent_change of the type between its first and its last window with
\* data is greater than p, resp. less than p (p a whole number of percent);
\* with a first average of 0 the change counts as 0
FbChangeAbove(mt, p) ==
    LET fs == FbSum(mt, FbFirst(mt))
        fn == FbCount(mt, FbFirst(mt))
        ls == FbSum(mt, FbLast(mt))
        ln == FbCount(mt, FbLast(mt))
    IN  IF fs = 0 THEN 0 > p
        ELSE (ls * fn - fs * ln) * 100 > p * fs * ln

FbChangeBelow(mt, p) ==
    LET fs == FbSum(mt, FbFirst(mt))
        fn == FbCount(mt, FbFirst(mt))
        ls == FbSum(mt, FbLast(mt))
        ln == FbCount(mt, FbLast(mt))
    IN  IF fs = 0 THEN 0 < p
        ELSE (ls * fn - fs * ln) * 100 < p * fs * ln

\* the insights of a response that are about exactly the one type
FbInsightsAbout(response, mt) ==
    SelectSeq(response.insights, LAMBDA ins : ins.related_measurements = <<mt>>)

\* the number of recommendations of a response with the given text
FbRecommendationCount(response, text) ==
    Len(SelectSeq(response.recommendations, LAMBDA rec : rec.text = text))

\* a call of the fallback for trend analysis that returned
FbTrendResult(j) ==
    /\ fb_type = TREND_ANALYSIS
    /\ j \in 1..Len(fb_results)
    /\ fb_results[j].result.status = "returned"

\* C11: in the trend fallback a signal with data in at least two windows gets
\* exactly one trend insight: significant (confidence 0.85, direction
\* increasing or decreasing by the sign of percent_change) when
\* |percent_change| > 10, stable (confidence 0.9) otherwise, exactly 10
\* included; a signal with data in fewer than two windows gets none.
\* percent_change is taken between the first and the last window with data.
C11_TrendClassification ==
    \A j \in 1..Len(fb_results) :
        FbTrendResult(j) =>
            \A mt \in SignalNames :
                LET about == FbInsightsAbout(fb_results[j].result.response, mt)
                IN  IF Cardinality(FbDataWindows(mt)) < 2 THEN about = <<>>
                    ELSE /\ Len(about) = 1
                         /\ FbChangeAbove(mt, 10)
                               => about[1].confidence = 85 /\ about[1].direction = "increasing"
                         /\ FbChangeBelow(mt, -10)
                               => about[1].confidence = 85 /\ about[1].direction = "decreasing"
                         /\ (~FbChangeAbove(mt, 10) /\ ~FbChangeBelow(mt, -10))
                               => about[1].confidence = 90 /\ about[1].direction = "stable"

\* heart rate 80 in the first window, none in the second, 100 and 120 in the
\* third: the change from 80 to 110 is reported as an increasing trend
C11_Witness ==
    /\ FbTrendResult(1)
    /\ FbDataWindows("hr") = {1, 3}
    /\ FbSum("hr", 1) = 80
    /\ FbSum("hr", 3) = 220
    /\ FbInsightsAbout(fb_results[1].result.response, "hr")[1].direction = "increasing"

\* C12: in the trend fallback the signal-specific recommendations fire on
\* significant trends only: hr with percent_change > 10 gives one priority-3
\* monitoring recommendation, oxygen with a significant decrease one
\* priority-4 respiratory recommendation, activity with percent_change < -15
\* one priority-3 mobility recommendation; a stable signal and any other type
\* give none.
C12_TrendRecommendations ==
    \A j \in 1..Len(fb_results) :
        FbTrendResult(j) =>
            LET response == fb_results[j].result.response
                two(mt) == Cardinality(FbDataWindows(mt)) >= 2
                expected(text, fires) ==
                    FbRecommendationCount(response, text) = IF fires THEN 1 ELSE 0
            IN  /\ expected("Monitor heart rate more frequently",
                            two("hr") /\ FbChangeAbove("hr", 10))
                /\ expected("Evaluate respiratory function",
                            two("oxygen") /\ FbChangeBelow("oxygen", -10))
                /\ expected("Assess for mobility issues or fatigue",
                            two("activity") /\ FbChangeBelow("activity", -15))
                /\ \A k \in 1..Len(response.recommendations) :
                      LET rec == response.recommendations[k]
                      IN  \/ rec.text = "Monitor heart rate more frequently" /\ rec.priority = 3
                          \/ rec.text = "Evaluate respiratory function" /\ rec.priority = 4
                          \/ rec.text = "Assess for mobility issues or fatigue" /\ rec.priority = 3
                          \/ /\ rec.text = "Continue monitoring with the current window configuration"
                             /\ rec.priority = 2
                             /\ \E mt \in SignalNames \ {"hr", "oxygen", "activity", "glucose"} :
                                   FbDataWindows(mt) /= {}

\* the per-window heart-rate averages 80, 79, 81 (a change of 1.25 percent)
\* are reported as stable and no recommendation is made
C12_Witness ==
    /\ FbTrendResult(1)
    /\ FbDataWindows("hr") = {1, 2, 3}
    /\ FbSum("hr", 1) = 80 /\ FbSum("hr", 2) = 79 /\ FbSum("hr", 3) = 81
    /\ FbInsightsAbout(fb_results[1].result.response, "hr")[1].direction = "stable"
    /\ fb_results[1].result.response.recommendations = <<>>

\* C13: in the trend fallback, when the first window average of a signal is 0
\* percent_change is taken as 0, the signal is classified stable and no error
\* is raised (stated for a PatientData whose window parameters are set).
C13_ZeroFirstAverage ==
    \A j \in 1..Len(fb_results) :
        (/\ fb_type = TREND_ANALYSIS
         /\ fb_data.window_count /= Absent)
        => /\ fb_results[j].result.status = "returned"
           /\ \A mt \in SignalNames :
                (/\ Cardinality(FbDataWindows(mt)) >= 2
                 /\ FbSum(mt, FbFirst(mt)) = 0)
                => LET about == FbInsightsAbout(fb_results[j].result.response, mt)
                   IN  /\ Len(about) = 1
                       /\ about[1].direction = "stable"
                       /\ about[1].confidence = 90

\* heart rate 0 in the first window and 100 in the last one: reported stable
C13_Witness ==
    /\ FbTrendResult(1)
    /\ fb_data.window_count /= Absent
    /\ FbDataWindows("hr") /= {}
    /\ FbFirst("hr") /= FbLast("hr")
    /\ FbSum("hr", FbFirst("hr")) = 0
    /\ FbSum("hr", FbLast("hr")) = 100
    /\ FbInsightsAbout(fb_results[1].result.response, "hr")[1].direction = "stable"

----
C16_WindowsIffTrend ==
    (pc = "respond" /\ llm.result.status = "returned")
    => (llm.result.response.windows /= Absent
           <=> llm.result.response.analysis_type = TREND_ANALYSIS)

\* C19: on the LLM path the answer is dispatched in three ways: a content
\* that parses as JSON is converted to summary, insights and recommendations;
\* a content that fails JSON parsing goes through the line-based extraction
\* (first line as summary, lines prefixed "Insight:" / "Recommendation:");
\* any other error of the call or of the conversion leads to the result of
\* the deterministic fallback.
C19_ResponseDispatch ==
    (pc = "respond" /\ llm.api_calls >= 1)
    => /\ llm.answer \in {"json_ok", "json_in_code_block", "json_missing_fields"}
            => /\ llm.result.status = "returned"
               /\ llm.result.response.source = "json"
               /\ llm.result.response.summary.text
                     = IF llm.answer = "json_missing_fields"
                       THEN "No summary provided" ELSE "summary of the content"
               /\ ~llm.mock_called
       /\ llm.answer \in {"non_json", "non_json_lines"}
            => /\ llm.result.status = "returned"
               /\ llm.result.response.source = "lines"
               /\ llm.result.response.summary.text = "first line of the content"
               /\ Len(llm.result.response.insights)
                     = IF llm.answer = "non_json_lines" THEN 1 ELSE 0
               /\ Len(llm.result.response.recommendations)
                     = IF llm.answer = "non_json_lines" THEN 1 ELSE 0
               /\ ~llm.mock_called
       /\ llm.answer \in {"exception", "timeout", "json_invalid_fields", "json_not_object"}
            => /\ llm.mock_called
               /\ llm.result = _generate_mock_response(request.analysis_type, patient_data)

\* a content that is no JSON went through the line-based extraction and gave
\* one insight and one recommendation
C19_Witness ==
    /\ pc = "respond"
    /\ llm.answer = "non_json_lines"
    /\ llm.result.status = "returned"
    /\ llm.result.response.source = "lines"
    /\ Len(llm.result.response.insights) = 1
    /\ llm.result.response.insights[1].confidence = 100

----
\* C20: for every signal with N >= 1 readings format_prompt lists at most 20
\* sampled readings of that signal, taken at a constant stride over the
\* readings sorted by timestamp.
C20_PromptSampling ==
    prompt_samples /= Absent =>
        LET samples == prompt_samples[1]
            sorted == SortByTimestamp(prompt_vitals)
        IN  /\ Len(samples) <= 20
            /\ \A i \in 1..(Len(sorted) - 1) : sorted[i].timestamp <= sorted[i + 1].timestamp
            /\ \E stride \in 1..Len(sorted) :
                  /\ \A i \in 1..Len(samples) : samples[i] = sorted[(i - 1) * stride + 1]
                  /\ Len(samples) * stride >= Len(sorted)

----
\* C17: loading the simulator configuration rejects every malformed or
\* out-of-range parameter (sample rate outside [0.1, 60], noise level outside
\* [0, 1], sleep start hour outside 0..23, sleep duration outside [4, 12],
\* malformed or out-of-range meal hours) before any generation happens: a
\* start that fails has generated nothing, and no such value reaches generate.
C17_ConfigurationValidated ==
    /\ sim_pc = "failed" => ticks = 0
    /\ (sim_pc \in {"batch", "streaming", "exited"} /\ ticks > 0)
       => /\ 100 <= config.sample_rate /\ config.sample_rate <= 60000
          /\ 0 <= config.noise_level /\ config.noise_level <= 1000
          /\ settings.sleep_start_hour \in 0..23
          /\ settings.sleep_duration_hours \in 4..12
          /\ \A k \in 1..Len(config.meal_times_str) :
                /\ config.meal_times_str[k] \in IntLiterals
                /\ int(config.meal_times_str[k]) \in 0..23
          /\ \A k \in 1..Len(settings.meal_times) : settings.meal_times[k] \in 0..23

\* C18: every sample the emitter publishes, in streaming mode and in batch
\* mode, is a flat map with patient_id, device_id, a timestamp in ISO-8601 UTC
\* with a Z suffix, and one key for each of the six signal types.
C18_SampleFormat ==
    \A k \in 1..Len(published) :
        /\ {"patient_id", "device_id", "timestamp"} \cup SignalNames \subseteq DOMAIN published[k]
        /\ published[k].timestamp.suffix = "Z"

\* C21: a second reading set for the comparison period is attached to the
\* patient data (comparison_data non-null) if and only if the analysis kind
\* is comparative; time-window, event-based and trend-analysis requests never
\* fetch it.
C21_ComparisonIffComparative ==
    pc \in {"analyze", "respond"}
    => (patient_data.comparison_data /= Absent <=> request.analysis_type = COMPARATIVE)

\* the readings of the store inside the inclusive range of built window k
InclusiveRange(k) ==
    {r \in store : windows_data[k].start_time <= r.timestamp
                      /\ r.timestamp <= windows_data[k].end_time}

\* C22: the Window Builder assigns a reading to every window whose inclusive
\* range [start, end] contains its timestamp; with an interval >= 0 a reading
\* then belongs to at most two windows, and to two only when the interval is
\* 0 and its timestamp is the instant shared by two adjacent windows.
C22_InclusiveAssignment ==
    WindowsBuilt =>
        /\ \A k \in 1..Len(windows_data) :
              windows_data[k].stats = WindowStats(InclusiveRange(k))
        /\ (request.window_interval_hours >= 0 /\ request.window_duration_hours > 0) =>
              \A r \in store :
                  LET ks == {k \in 1..Len(windows_data) : r \in InclusiveRange(k)}
                  IN  /\ Cardinality(ks) <= 2
                      /\ Cardinality(ks) = 2 =>
                            /\ request.window_interval_hours = 0
                            /\ \E k \in ks :
                                  /\ k + 1 \in ks
                                  /\ r.timestamp = windows_data[k].end_time
                                  /\ r.timestamp = windows_data[k + 1].start_time

\* the contribution of each modulator to the factor of signal s at the hour,
\* taken on its own: the circadian rhythm (with the morning surge), the meals,
\* the sleep override
CircadianPart(s, hour) ==
    _get_circadian_factor(hour, [use_circadian_rhythms |-> TRUE, simulate_meals |-> FALSE,
                                 simulate_sleep |-> FALSE, meal_times |-> <<>>,
                                 sleep_start_hour |-> 0, sleep_duration_hours |-> 4])[s]

MealPart(s, hour, st) ==
    IF s = "glucose" THEN MealEffect(hour, st.meal_times) ELSE 0

SleepPart(s, hour, st) ==
    IF ~IsSleep(hour, st.sleep_start_hour, st.sleep_duration_hours) THEN 0
    ELSE IF s = "activity" THEN -8000
    ELSE IF s = "hr" THEN -1500
    ELSE IF s \in {"bp_sys", "bp_dia"} THEN -1000
    ELSE 0

\* C23: the three modulation flags are independent: each of
\* use_circadian_rhythms, simulate_meals and simulate_sleep switches off only
\* its own contribution to the modulation vector, so the meal contribution
\* depends only on simulate_meals and the sleep override only on
\* simulate_sleep, whatever the value of use_circadian_rhythms.
C23_FlagsIndependent ==
    ticks > 0 =>
        \A s \in SignalNames :
            factors.effects[s] =
                (IF settings.use_circadian_rhythms
                 THEN CircadianPart(s, factors.timestamp) ELSE 0)
                + (IF settings.simulate_meals
                   THEN MealPart(s, factors.timestamp, settings) ELSE 0)
                + (IF settings.simulate_sleep
                   THEN SleepPart(s, factors.timestamp, settings) ELSE 0)

\* C24: for every sleep_start_hour in 0..23, sleep duration in 4..12 and hour
\* of day h, with the sleep simulation in effect the sleep override is applied
\* exactly when (h - sleep_start) mod 24 < duration (h lies in
\* [sleep_start, sleep_start + duration), wrapping past midnight); it lowers
\* the activity factor by 0.8, the hr factor by 0.15 and both blood pressure
\* factors by 0.1 and leaves the glucose and oxygen factors unchanged.
C24_SleepOverride ==
    (factors /= NoFactors /\ settings.use_circadian_rhythms /\ settings.simulate_sleep) =>
        LET h == factors.timestamp
            applied == ((h - settings.sleep_start_hour) % 24) < settings.sleep_duration_hours
            plain(s) == CircadianPart(s, h)
                           + (IF settings.simulate_meals THEN MealPart(s, h, settings) ELSE 0)
            lowered(s) == IF s = "activity" THEN 8000
                          ELSE IF s = "hr" THEN 1500
                          ELSE IF s \in {"bp_sys", "bp_dia"} THEN 1000
                          ELSE 0
        IN  \A s \in SignalNames :
                factors.effects[s] = IF applied THEN plain(s) - lowered(s) ELSE plain(s)

\* the override is applied after midnight for a sleep that began before it
C24_Witness ==
    /\ factors /= NoFactors
    /\ settings.use_circadian_rhythms
    /\ settings.simulate_sleep
    /\ settings.sleep_start_hour = 22
    /\ settings.sleep_duration_hours = 9
    /\ factors.timestamp = 6
    /\ factors.effects["activity"] = CircadianPart("activity", 6) - 8000
    /\ factors.effects["oxygen"] = CircadianPart("oxygen", 6)

\* C25: the per-signal trend scalar does not diverge: with every trend draw of
\* magnitude at most B, each update gives |t_new| <= 0.95 * (|t_old| + B), and
\* starting from t = 0 the trend satisfies |t| <= 19 * B after any number of
\* generate calls.
C25_TrendDoesNotDiverge ==
    /\ [](\A s \in SignalNames : Abs(trends[s]) <= 19 * DrawBound)
    /\ [][\A s \in SignalNames :
             100 * Abs(trends'[s]) <= 95 * (Abs(trends[s]) + DrawBound)]_vars

\* after many calls with draws of one sign the trend is within one B of 19 * B
C25_Witness ==
    /\ ticks >= 60
    /\ \A s \in SignalNames : trends[s] >= 18 * DrawBound

\* C26: the baselines are scaled by the condition multiplier exactly once, at
\* construction, and are never reassigned afterwards: every generate call
\* leaves every per-signal baseline unchanged and mutates only the trend
\* scalars of the generator.
C26_BaselinesNeverReassigned ==
    /\ [](\E jitter \in OxygenJitter : baselines = InitialBaselines(condition, jitter))
    /\ [][ticks' /= ticks => (baselines' = baselines /\ condition' = condition)]_vars

\* two generate calls have moved the trends of a tachycardia patient whose hr
\* baseline is 80 * 1.3
C26_Witness ==
    /\ ticks = 2
    /\ condition = "tachycardia"
    /\ baselines["hr"] = 104000
    /\ \A s \in SignalNames : trends[s] /= 0

\* C27: the anomaly flag stored for a reading is true exactly when its value
\* is below the minimum or above the maximum of the canonical normal range of
\* its signal type, the range the generator uses for that signal, for all six
\* signal types.
C27_AnomalyFlagUsesNormalRange ==
    \A k \in 1..Len(written) :
        written[k].is_anomaly
            <=> \/ written[k].value < NORMAL_RANGES[written[k].measurement_type][1]
                \/ written[k].value > NORMAL_RANGES[written[k].measurement_type][2]

\* the order of the severities: low < medium < high < critical
SeverityRank == [low |-> 1, medium |-> 2, high |-> 3, critical |-> 4]

\* the thresholds that apply to the readings of a patient and type: the
\* patient's own entry of thresholds, else the global one
ApplicableThresholds(measurement_type, patient_id) ==
    LET own == ThresholdKey(measurement_type, patient_id)
        key == IF own \in DOMAIN thresholds THEN own
               ELSE ThresholdKey(measurement_type, "global")
    IN  IF key \notin DOMAIN thresholds THEN {}
        ELSE IF thresholds[key].kind = "model" THEN {thresholds[key].value}
        ELSE {thresholds[key].value[k] : k \in DOMAIN thresholds[key].value}

\* the thresholds of a patient and type that a value violates
Violated(measurement_type, patient_id, value) ==
    {t \in ApplicableThresholds(measurement_type, patient_id) : Exceeds(value, t)}

\* C28: when a reading violates several thresholds of its measurement type,
\* the alert created by check_for_anomalies carries the highest severity among
\* the violated thresholds, under the order low < medium < high < critical.
C28_HighestSeverity ==
    [][\A a \in alerts' \ alerts :
          \A t \in Violated(a.measurement_type, a.patient_id, a.value) :
              SeverityRank[a.severity] >= SeverityRank[t.severity]]_vars

\* C30: after create_threshold has stored a threshold for a measurement type
\* (for one patient or global), every later check_for_anomalies cycle still
\* evaluates the readings of that type for all patients and creates an alert
\* for a value outside the thresholds that apply to it; storing a threshold
\* never disables alerting for the type.
C30_StoredThresholdKeepsAlerting ==
    [][cycle' /= cycle =>
          \A key \in DOMAIN thresholds :
              thresholds[key].kind = "model" =>
                  \A p \in Patients :
                      (key[1] \in DOMAIN latest[p]
                          /\ Violated(key[1], p, latest[p][key[1]]) /= {})
                      => \E a \in alerts' \ alerts :
                            a.patient_id = p /\ a.measurement_type = key[1]]_vars

\* C29: in batch (backfill) mode the sample published for the historical
\* instant t_i = start + i * step has its signal values generated with the
\* time-of-day modulation evaluated at t_i, the timestamp the sample carries,
\* and the batch timestamps are strictly increasing within
\* [end - backfill_hours, end).
C29_BatchModulationAtSampleTime ==
    /\ [](sim_pc = "batch" =>
             /\ \A k \in 1..Len(published) :
                   /\ published[k].timestamp.instant >= loop.start_time
                   /\ published[k].timestamp.instant < clock
             /\ \A j, k \in 1..Len(published) :
                   j < k => published[j].timestamp.instant < published[k].timestamp.instant)
    /\ [][(sim_pc = "batch" /\ Len(published') > Len(published)) =>
             /\ published'[Len(published')].timestamp.instant
                    = loop.start_time + loop.i * loop.time_step
             /\ factors'.timestamp = HourOf(published'[Len(published')].timestamp.instant)]_vars

====
